---- MODULE Spec2Model ----
(***************************************************************************)
(* pigeon: template-based mail sending.                                    *)
(*                                                                         *)
(* Model of Send and SendRaw (package pigeon) and of tpl.ParseFile.        *)
(* Strings are sequences of bytes (integers 0..255).  A text/template      *)
(* source is a sequence of tokens: a byte is literal text, and the three   *)
(* tokens above 255 stand for template actions.                           *)
(***************************************************************************)
EXTENDS Integers, Sequences, FiniteSets, TLC

VARIABLES
    op,       \* the exported function that was called: "Send" or "SendRaw"
    cfg,      \* Send: the EmailConfig argument
    file,     \* Send: the template file found at cfg.TemplatePath
    data,     \* Send: the data argument
    raw,      \* SendRaw: the raw message argument
    pc,       \* position in the function body
    t,        \* Send: the *tpl.Template returned by ParseFile
    src,      \* Send: fromTemplate, toTemplate, ccTemplate, bccTemplate, subjTemplate
    from,     \* the envelope sender handed to c.Mail
    hdr,      \* Send: the textproto.MIMEHeader under construction
    msg,      \* Send: the assembled message
    rcpts,    \* the envelope recipients still to be offered to the relay
    uniq,     \* SendRaw: the recipient addresses the relay has accepted
    conn,     \* the TCP connection: "none", "open" or "closed"
    client,   \* the smtp.Client: exists, didHello, helloErr
    defers,   \* the deferred calls of the running function, oldest first
    wire,     \* the network events in order: the dial, the greeting, the commands
              \* and the message data, each with its outcome
    ret,      \* the returned (retry, err), once the return statement has run
    other     \* concurrent calls: the call that is not running now, with its
              \* arguments and all its local variables

vars == <<op, cfg, file, data, raw, pc, t, src, from, hdr, msg, rcpts, uniq,
          conn, client, defers, wire, ret, other>>

Nil == "nil"

\* ------------------------------------------------------------------ bounds

\* Number of addresses in a literal To list of the template file.
NumTo == 2

\* Longest attachment list of a configuration.
MaxAttachments == 2

\* ------------------------------------------------------- strings of bytes

Empty == <<>>

RECURSIVE Concat(_)
Concat(ss) == IF ss = <<>> THEN <<>> ELSE Head(ss) \o Concat(Tail(ss))

\* unicode.IsSpace restricted to single bytes, as strings.TrimSpace applies it
IsSpace(b) == b \in {9, 10, 11, 12, 13, 32}

RECURSIVE TrimLeft(_)
TrimLeft(s) == IF s # <<>> /\ IsSpace(Head(s)) THEN TrimLeft(Tail(s)) ELSE s

RECURSIVE TrimRight(_)
TrimRight(s) ==
    IF s # <<>> /\ IsSpace(s[Len(s)]) THEN TrimRight(SubSeq(s, 1, Len(s) - 1)) ELSE s

TrimSpace(s) == TrimRight(TrimLeft(s))

\* strings.Split(s, sep) for a one-byte separator: always at least one field
RECURSIVE Split(_, _)
Split(s, sep) ==
    IF \A i \in 1..Len(s) : s[i] # sep
    THEN <<s>>
    ELSE LET i == CHOOSE i \in 1..Len(s) :
                      s[i] = sep /\ \A j \in 1..(i - 1) : s[j] # sep
         IN  <<SubSeq(s, 1, i - 1)>> \o Split(SubSeq(s, i + 1, Len(s)), sep)

isASCII(s) == \A i \in 1..Len(s) : s[i] <= 127

maxLineLength == 78
maxContentLength == 76

hasLongLines(text) ==
    \E i \in 1..Len(Split(text, 10)) : Len(Split(text, 10)[i]) > maxContentLength

\* chooseNonEmpty returns a if non-empty, else b.
chooseNonEmpty_Swapped(a, b) == IF b # Empty THEN b ELSE a

chooseNonEmpty(a, b) == IF a # Empty THEN a ELSE b

\* ------------------------------------------------------------ text/template

\* {{.V}}: replaced by the value of data.V
TokVar == 256
\* an action that does not parse, such as an unclosed "{{"
TokBad == 257
\* an action that parses and whose execution fails, such as {{index .L 9}}
TokErr == 258

\* template.New(name).Parse(s) succeeds
ParseOK(s) == \A i \in 1..Len(s) : s[i] # TokBad

\* tmpl.Execute(&buf, data) succeeds
ExecOK(s) == \A i \in 1..Len(s) : s[i] # TokErr

\* what tmpl.Execute wrote: everything up to the first failing action
RECURSIVE Execute(_, _)
Execute(s, d) ==
    IF \E i \in 1..Len(s) : s[i] = TokErr
    THEN Execute(SubSeq(s, 1, (CHOOSE i \in 1..Len(s) :
                                  s[i] = TokErr /\ \A j \in 1..(i - 1) : s[j] # TokErr) - 1), d)
    ELSE IF Len(s) <= 1
    THEN (IF s # <<>> /\ s[1] = TokVar THEN d.V ELSE s)
    ELSE Execute(SubSeq(s, 1, Len(s) \div 2), d)
         \o Execute(SubSeq(s, Len(s) \div 2 + 1, Len(s)), d)

\* ----------------------------------------------------- textproto.MIMEHeader

\* header names, as bytes
H_From == <<70, 114, 111, 109>>
H_To == <<84, 111>>
H_Cc == <<67, 99>>
H_Bcc == <<66, 99, 99>>
H_Subject == <<83, 117, 98, 106, 101, 99, 116>>
H_Sub == <<83, 117, 98>>
H_Date == <<68, 97, 116, 101>>
H_MIMEVersion == <<77, 73, 77, 69, 45, 86, 101, 114, 115, 105, 111, 110>>
H_ContentType == <<67, 111, 110, 116, 101, 110, 116, 45, 84, 121, 112, 101>>
H_CTE == <<67, 111, 110, 116, 101, 110, 116, 45, 84, 114, 97, 110, 115, 102,
           101, 114, 45, 69, 110, 99, 111, 100, 105, 110, 103>>
H_XApp == <<88, 45, 65, 112, 112>>

IsUpper(c) == c >= 65 /\ c <= 90
IsLower(c) == c >= 97 /\ c <= 122
ToLower(c) == IF IsUpper(c) THEN c + 32 ELSE c
ToUpper(c) == IF IsLower(c) THEN c - 32 ELSE c

LowerStr(s) == [i \in 1..Len(s) |-> ToLower(s[i])]

\* strings.EqualFold on ASCII strings
EqualFold(a, b) == LowerStr(a) = LowerStr(b)

\* textproto.validHeaderFieldByte: the token characters of RFC 7230
validHeaderFieldByte(c) ==
    \/ IsUpper(c) \/ IsLower(c) \/ (c >= 48 /\ c <= 57)
    \/ c \in {33, 35, 36, 37, 38, 39, 42, 43, 45, 46, 94, 95, 96, 124, 126}

\* textproto.CanonicalMIMEHeaderKey: a key with a byte that is no token
\* character is left as it is; otherwise the first letter and every letter after
\* a hyphen are upper-cased and the others lower-cased
CanonicalMIMEHeaderKey(k) ==
    IF \E i \in 1..Len(k) : ~validHeaderFieldByte(k[i])
    THEN k
    ELSE [i \in 1..Len(k) |->
            IF i = 1 \/ k[i - 1] = 45 THEN ToUpper(k[i]) ELSE ToLower(k[i])]

NoHeader == [k \in {} |-> <<>>]

\* h.Set(k, v)
HdrSet(h, k, v) ==
    [x \in DOMAIN h \cup {CanonicalMIMEHeaderKey(k)} |->
        IF x = CanonicalMIMEHeaderKey(k) THEN v ELSE h[x]]

\* h.Get(k): "" when the header is absent
HdrGet(h, k) ==
    IF CanonicalMIMEHeaderKey(k) \in DOMAIN h THEN h[CanonicalMIMEHeaderKey(k)] ELSE Empty

\* ------------------------------------------------------------- tpl.ParseFile

\* strings.Cut(line, ":")
CutColon(line) ==
    IF \A i \in 1..Len(line) : line[i] # 58
    THEN [found |-> FALSE, k |-> line, v |-> Empty]
    ELSE LET i == CHOOSE i \in 1..Len(line) :
                      line[i] = 58 /\ \A j \in 1..(i - 1) : line[j] # 58
         IN  [found |-> TRUE, k |-> SubSeq(line, 1, i - 1),
              v |-> SubSeq(line, i + 1, Len(line))]

\* textproto.Reader.ReadLine: the line without its "\n" or "\r\n"
StripCR(line) ==
    IF line # <<>> /\ line[Len(line)] = 13 THEN SubSeq(line, 1, Len(line) - 1) ELSE line

\* the header loop with a name's first value kept
RECURSIVE ReadHeaders_FirstWins(_, _, _)
ReadHeaders_FirstWins(lines, h, n) ==
    IF lines = <<>> THEN [hdr |-> h, n |-> n]
    ELSE LET line == StripCR(Head(lines))
             c == CutColon(line)
             k == IF EqualFold(TrimSpace(c.k), H_Sub) THEN H_Subject ELSE TrimSpace(c.k)
         IN  IF line = <<>> THEN [hdr |-> h, n |-> n + 1]
             ELSE IF ~c.found \/ CanonicalMIMEHeaderKey(k) \in DOMAIN h
             THEN ReadHeaders_FirstWins(Tail(lines), h, n + 1)
             ELSE ReadHeaders_FirstWins(Tail(lines), HdrSet(h, k, TrimSpace(c.v)), n + 1)

\* the header loop of ParseFile over the lines of the file: it stops at the
\* first empty line; n is the number of lines it consumed, the empty one included
RECURSIVE ReadHeaders(_, _, _)
ReadHeaders(lines, h, n) ==
    IF lines = <<>> THEN [hdr |-> h, n |-> n]
    ELSE LET line == StripCR(Head(lines))
             c == CutColon(line)
             k == IF EqualFold(TrimSpace(c.k), H_Sub) THEN H_Subject ELSE TrimSpace(c.k)
         IN  IF line = <<>> THEN [hdr |-> h, n |-> n + 1]
             ELSE IF ~c.found THEN ReadHeaders(Tail(lines), h, n + 1)
             ELSE ReadHeaders(Tail(lines), HdrSet(h, k, TrimSpace(c.v)), n + 1)

RECURSIVE Join(_, _)
Join(ss, sep) ==
    IF ss = <<>> THEN <<>>
    ELSE IF Len(ss) = 1 THEN Head(ss)
    ELSE Head(ss) \o <<sep>> \o Join(Tail(ss), sep)

NoTemplate == [parsed |-> FALSE, hdr |-> NoHeader, bodyTmpl |-> <<>>]

\* tpl.ParseFile(path) on the file f: an error, or the Template
ParseFile(f) ==
    IF ~f.exists THEN [err |-> "open template file", t |-> NoTemplate]
    ELSE LET lines == Split(f.content, 10)
             r == ReadHeaders(lines, NoHeader, 0)
             body == Join(SubSeq(lines, r.n + 1, Len(lines)), 10)
         IN  IF ~ParseOK(body)
             THEN [err |-> "parse body template", t |-> NoTemplate]
             ELSE [err |-> Nil, t |-> [parsed |-> TRUE, hdr |-> r.hdr, bodyTmpl |-> body]]

\* ------------------------------------------------- mime/quotedprintable

HexDigit(n) == IF n < 10 THEN 48 + n ELSE 55 + n

\* the Writer's state: out is what reached the underlying writer, line the
\* buffered line (w.line[:w.i]), cr whether the last byte written was "\r"
QPStart == [out |-> <<>>, line |-> <<>>, cr |-> FALSE]

QPFlush(w) == [w EXCEPT !.out = w.out \o w.line, !.line = <<>>]

QPInsertCRLF(w) == QPFlush([w EXCEPT !.line = w.line \o <<13, 10>>])

QPInsertSoftLineBreak(w) == QPInsertCRLF([w EXCEPT !.line = w.line \o <<61>>])

\* Writer.encode: "=XX", after a soft line break when the line has no room
QPEncodeByte(w, b) ==
    LET w1 == IF 75 - Len(w.line) < 3
              THEN QPInsertSoftLineBreak(w) ELSE w
    IN  [w1 EXCEPT !.line = w1.line \o <<61, HexDigit(b \div 16), HexDigit(b % 16)>>]

\* Writer.checkLastByte: a space or tab that ends a line is encoded
QPCheckLastByte(w) ==
    IF w.line # <<>> /\ w.line[Len(w.line)] \in {32, 9}
    THEN QPEncodeByte([w EXCEPT !.line = SubSeq(w.line, 1, Len(w.line) - 1)],
                      w.line[Len(w.line)])
    ELSE w

\* Writer.write of one byte
QPWriteByte(w, b) ==
    IF b \in {10, 13}
    THEN IF w.cr /\ b = 10
         THEN [w EXCEPT !.cr = FALSE]
         ELSE QPInsertCRLF(QPCheckLastByte([w EXCEPT !.cr = (b = 13) \/ w.cr]))
    ELSE LET w1 == IF Len(w.line) = 75
                   THEN QPInsertSoftLineBreak(w) ELSE w
         IN  [w1 EXCEPT !.line = w1.line \o <<b>>, !.cr = FALSE]

\* Writer.Write: printable bytes other than "=", spaces, tabs, and line
\* breaks go through write; every other byte is encoded
RECURSIVE QPWrite(_, _)
QPWrite(w, p) ==
    IF p = <<>> THEN w
    ELSE IF Len(p) = 1
    THEN LET b == Head(p)
             plain == (b >= 33 /\ b <= 126 /\ b # 61) \/ b \in {32, 9, 10, 13}
         IN  IF plain THEN QPWriteByte(w, b) ELSE QPEncodeByte(w, b)
    ELSE LET half == QPWrite(w, SubSeq(p, 1, Len(p) \div 2))
         IN  IF half.cr \in BOOLEAN
             THEN QPWrite(half, SubSeq(p, Len(p) \div 2 + 1, Len(p)))
             ELSE half

\* NewWriter, Write(s), Close
QuotedPrintable(s) == QPFlush(QPCheckLastByte(QPWrite(QPStart, s))).out

\* strings.ReplaceAll(s, "\r\n", "")
RECURSIVE RemoveCRLF(_)
RemoveCRLF(s) ==
    IF Len(s) <= 1 THEN s
    ELSE IF Len(s) = 2 THEN (IF s = <<13, 10>> THEN <<>> ELSE s)
    ELSE LET m == IF s[Len(s) \div 2] = 13 /\ s[Len(s) \div 2 + 1] = 10
                  THEN Len(s) \div 2 + 1 ELSE Len(s) \div 2
         IN  RemoveCRLF(SubSeq(s, 1, m)) \o RemoveCRLF(SubSeq(s, m + 1, Len(s)))

\* strings.ReplaceAll(s, "=", "=3D")
RECURSIVE EscapeEquals(_)
EscapeEquals(s) ==
    IF Len(s) <= 1 THEN (IF s = <<61>> THEN <<61, 51, 68>> ELSE s)
    ELSE EscapeEquals(SubSeq(s, 1, Len(s) \div 2))
         \o EscapeEquals(SubSeq(s, Len(s) \div 2 + 1, Len(s)))

\* encodingUTF8Subject with every subject passed through
encodingUTF8Subject_Raw(s) == s

\* encodingUTF8Subject: ASCII as it is, otherwise "=?UTF-8?Q?" ... "?="
encodingUTF8Subject(s) ==
    IF isASCII(s) THEN s
    ELSE <<61, 63, 85, 84, 70, 45, 56, 63, 81, 63>>
         \o EscapeEquals(RemoveCRLF(QuotedPrintable(s))) \o <<63, 61>>

\* ------------------------------------------------------- encoding/base64

\* the base64 alphabet: A-Z, a-z, 0-9, "+", "/"
B64Char(n) ==
    IF n < 26 THEN 65 + n
    ELSE IF n < 52 THEN 71 + n
    ELSE IF n < 62 THEN n - 4
    ELSE IF n = 62 THEN 43 ELSE 47

\* base64.StdEncoding.EncodeToString
RECURSIVE EncodeToString(_)
EncodeToString(b) ==
    IF b = <<>> THEN <<>>
    ELSE IF Len(b) = 1
    THEN <<B64Char(b[1] \div 4), B64Char((b[1] % 4) * 16), 61, 61>>
    ELSE IF Len(b) = 2
    THEN <<B64Char(b[1] \div 4), B64Char((b[1] % 4) * 16 + b[2] \div 16),
           B64Char((b[2] % 16) * 4), 61>>
    ELSE <<B64Char(b[1] \div 4), B64Char((b[1] % 4) * 16 + b[2] \div 16),
           B64Char((b[2] % 16) * 4 + b[3] \div 64), B64Char(b[3] % 64)>>
         \o EncodeToString(SubSeq(b, 4, Len(b)))

\* encodeAndWrapBase64 with the whole input on one line
encodeAndWrapBase64_Unwrapped(b) ==
    IF b = <<>> THEN <<>> ELSE EncodeToString(b) \o <<13, 10>>

\* encodeAndWrapBase64: 57 input bytes (76 output bytes) per line, each line
\* ended by "\r\n"
RECURSIVE encodeAndWrapBase64(_)
encodeAndWrapBase64(b) ==
    IF b = <<>> THEN <<>>
    ELSE LET n == IF (76 \div 4) * 3 > Len(b) THEN Len(b) ELSE (76 \div 4) * 3
         IN  EncodeToString(SubSeq(b, 1, n)) \o <<13, 10>>
             \o encodeAndWrapBase64(SubSeq(b, n + 1, Len(b)))

\* ------------------------------------------------------------ the file system

\* os.ReadFile(path) for the attachment paths of the model
ReadFile(path) ==
    CASE path = "a.txt" -> [err |-> Nil, data |-> <<104, 105>>]
      [] path = "b.bin" -> [err |-> Nil, data |-> <<0, 255, 16, 61>>]
      [] path = "c.dat" -> [err |-> Nil, data |-> [i \in 1..60 |-> 4 * i]]
      [] OTHER -> [err |-> "open attachment", data |-> <<>>]

\* time.LoadLocation(name) succeeds
LoadLocationOK(name) == name \in {"Asia/Tokyo", "UTC"}

\* DateValue with the configured zone never consulted
DateValue_AlwaysUTC(tz) == <<43, 48, 48, 48, 48>>

\* the zone offset that msgTime.Format(time.RFC1123Z) ends with; the clock
\* reading before it is left out
DateValue(tz) ==
    IF tz # "" /\ LoadLocationOK(tz) /\ tz = "Asia/Tokyo"
    THEN <<43, 48, 57, 48, 48>>
    ELSE <<43, 48, 48, 48, 48>>

\* --------------------------------------------------------------- Send: build

\* what no statement of a call assigns: its arguments, and the other call
inputs == <<op, cfg, file, data, raw, other>>
session == <<rcpts, uniq, conn, client, defers, wire>>

NoRet == [returned |-> FALSE, retry |-> FALSE, err |-> Nil]

NoMsg == [built |-> FALSE, multipart |-> FALSE, hdr |-> NoHeader, head |-> NoHeader,
          text |-> [hdr |-> NoHeader, body |-> <<>>], attachments |-> <<>>]

\* a return statement: the deferred calls run before the function returns
Return(retry, err) ==
    /\ ret' = [returned |-> TRUE, retry |-> retry, err |-> err]
    /\ pc' = IF defers = <<>> THEN "done" ELSE "defer"

\* Send, lines 46-57: the argument checks and tpl.ParseFile
SendParse ==
    /\ op = "Send" /\ pc = "start"
    /\ IF cfg.TemplatePath = ""
       THEN Return(FALSE, "TemplatePath must be specified") /\ UNCHANGED t
       ELSE IF cfg.Smarthost.Host = "" /\ cfg.Smarthost.Port = ""
       THEN Return(FALSE, "smarthost must be specified") /\ UNCHANGED t
       ELSE IF ParseFile(file).err # Nil
       THEN Return(FALSE, ParseFile(file).err) /\ UNCHANGED t
       ELSE t' = ParseFile(file).t /\ pc' = "from" /\ UNCHANGED ret
    /\ UNCHANGED <<inputs, src, from, hdr, msg, session>>

\* the first result of the return statements of Send, by what failed: true is
\* "the caller may retry"
retryOf_MissingRetryable(what) ==
    what \in {"missing", "dial", "client", "data", "write", "close"}

retryOf_DataPermanent(what) == what \in {"dial", "client"}

retryOf(what) == what \in {"dial", "client", "data", "write", "close"}

\* the tests fromTemplate == "" and toTemplate == "" of lines 66 and 83
MissingAddress_Never(tmpl) == FALSE

MissingAddress(tmpl) == tmpl = Empty

\* the template sources Send has chosen so far, by header
NoSrc == [k \in {} |-> Empty]
Assign(f, k, v) == [x \in DOMAIN f \cup {k} |-> IF x = k THEN v ELSE f[x]]

\* Send, lines 65-80: the From header
SendFrom ==
    /\ op = "Send" /\ pc = "from"
    /\ LET fromTemplate == chooseNonEmpty(HdrGet(t.hdr, H_From), cfg.From)
       IN  /\ src' = Assign(src, "From", fromTemplate)
           /\ IF MissingAddress(fromTemplate)
              THEN Return(retryOf("missing"), "missing From address") /\ UNCHANGED <<from, hdr>>
              ELSE IF ~ParseOK(fromTemplate)
              THEN Return(FALSE, "failed to parse From template")
                   /\ UNCHANGED <<from, hdr>>
              ELSE IF ~ExecOK(fromTemplate)
              THEN Return(FALSE, "failed to execute From template")
                   /\ UNCHANGED <<from, hdr>>
              ELSE /\ from' = Execute(fromTemplate, data)
                   /\ hdr' = HdrSet(hdr, H_From, Execute(fromTemplate, data))
                   /\ pc' = "to"
                   /\ UNCHANGED ret
    /\ UNCHANGED <<inputs, t, msg, session>>

\* Send, lines 82-96: the To header
SendTo ==
    /\ op = "Send" /\ pc = "to"
    /\ LET toTemplate == chooseNonEmpty(HdrGet(t.hdr, H_To), cfg.To)
       IN  /\ src' = Assign(src, "To", toTemplate)
           /\ IF MissingAddress(toTemplate)
              THEN Return(retryOf("missing"), "missing To address") /\ UNCHANGED hdr
              ELSE IF ~ParseOK(toTemplate)
              THEN Return(FALSE, "failed to parse To template") /\ UNCHANGED hdr
              ELSE IF ~ExecOK(toTemplate)
              THEN Return(FALSE, "failed to execute To template") /\ UNCHANGED hdr
              ELSE /\ hdr' = HdrSet(hdr, H_To, Execute(toTemplate, data))
                   /\ pc' = "cc"
                   /\ UNCHANGED ret
    /\ UNCHANGED <<inputs, t, from, msg, session>>

\* Send, lines 99-110: the Cc header, set when the rendered value is not empty
SendCc ==
    /\ op = "Send" /\ pc = "cc"
    /\ LET ccTemplate == chooseNonEmpty(HdrGet(t.hdr, H_Cc), cfg.Cc)
       IN  /\ src' = Assign(src, "Cc", ccTemplate)
           /\ IF ccTemplate = Empty
              THEN pc' = "bcc" /\ UNCHANGED <<hdr, ret>>
              ELSE IF ~ParseOK(ccTemplate)
              THEN Return(FALSE, "failed to parse Cc template") /\ UNCHANGED hdr
              ELSE IF ~ExecOK(ccTemplate)
              THEN Return(FALSE, "failed to execute Cc template") /\ UNCHANGED hdr
              ELSE /\ hdr' = IF Execute(ccTemplate, data) # Empty
                             THEN HdrSet(hdr, H_Cc, Execute(ccTemplate, data))
                             ELSE hdr
                   /\ pc' = "bcc"
                   /\ UNCHANGED ret
    /\ UNCHANGED <<inputs, t, from, msg, session>>

\* Send, lines 113-124: the Bcc header, set when the rendered value is not empty
SendBcc ==
    /\ op = "Send" /\ pc = "bcc"
    /\ LET bccTemplate == chooseNonEmpty(HdrGet(t.hdr, H_Bcc), cfg.Bcc)
       IN  /\ src' = Assign(src, "Bcc", bccTemplate)
           /\ IF bccTemplate = Empty
              THEN pc' = "subject" /\ UNCHANGED <<hdr, ret>>
              ELSE IF ~ParseOK(bccTemplate)
              THEN Return(FALSE, "failed to parse Bcc template") /\ UNCHANGED hdr
              ELSE IF ~ExecOK(bccTemplate)
              THEN Return(FALSE, "failed to execute Bcc template") /\ UNCHANGED hdr
              ELSE /\ hdr' = IF Execute(bccTemplate, data) # Empty
                             THEN HdrSet(hdr, H_Bcc, Execute(bccTemplate, data))
                             ELSE hdr
                   /\ pc' = "subject"
                   /\ UNCHANGED ret
    /\ UNCHANGED <<inputs, t, from, msg, session>>

\* "(no subject)"
NoSubject == <<40, 110, 111, 32, 115, 117, 98, 106, 101, 99, 116, 41>>

\* Send, lines 127-141: the Subject header, from the template file alone
SendSubject ==
    /\ op = "Send" /\ pc = "subject"
    /\ LET subjTemplate == IF HdrGet(t.hdr, H_Subject) = Empty
                           THEN NoSubject ELSE HdrGet(t.hdr, H_Subject)
       IN  /\ src' = Assign(src, "Subject", subjTemplate)
           /\ IF ~ParseOK(subjTemplate)
              THEN Return(FALSE, "failed to parse Subject template") /\ UNCHANGED hdr
              ELSE IF ~ExecOK(subjTemplate)
              THEN Return(FALSE, "failed to execute Subject template") /\ UNCHANGED hdr
              ELSE /\ hdr' = HdrSet(hdr, H_Subject,
                                    encodingUTF8Subject(Execute(subjTemplate, data)))
                   /\ pc' = "required"
                   /\ UNCHANGED ret
    /\ UNCHANGED <<inputs, t, from, msg, session>>

\* Send, lines 144-158: MIME-Version and Date
SendRequired ==
    /\ op = "Send" /\ pc = "required"
    /\ hdr' = HdrSet(HdrSet(hdr, H_MIMEVersion, <<49, 46, 48>>),
                     H_Date, DateValue(cfg.Timezone))
    /\ pc' = "custom"
    /\ UNCHANGED <<inputs, t, src, from, msg, session, ret>>

\* the loop of lines 161-166 over the keys in the order ks
RECURSIVE MergeCustom(_, _, _)
MergeCustom(h, headers, ks) ==
    IF ks = <<>> THEN h
    ELSE MergeCustom(IF headers[Head(ks)] = Empty THEN h
                     ELSE HdrSet(h, Head(ks), headers[Head(ks)]),
                     headers, Tail(ks))

\* the orders in which a range statement may visit the keys of a map
Orders(S) == {ks \in [1..Cardinality(S) -> S] : \A x \in S : \E i \in DOMAIN ks : ks[i] = x}

\* Send, lines 160-166: the custom headers of the configuration
SendCustomHeaders ==
    /\ op = "Send" /\ pc = "custom"
    /\ \E ks \in Orders(DOMAIN cfg.Headers) : hdr' = MergeCustom(hdr, cfg.Headers, ks)
    /\ pc' = "body"
    /\ UNCHANGED <<inputs, t, src, from, msg, session, ret>>

\* "text/plain; charset=UTF-8"
V_TextPlain == <<116, 101, 120, 116, 47, 112, 108, 97, 105, 110, 59, 32, 99, 104,
                 97, 114, 115, 101, 116, 61, 85, 84, 70, 45, 56>>
\* "7bit"
V_7bit == <<55, 98, 105, 116>>
\* "quoted-printable"
V_QP == <<113, 117, 111, 116, 101, 100, 45, 112, 114, 105, 110, 116, 97, 98, 108, 101>>
\* "multipart/mixed; boundary=pigeon_", followed in the code by the Unix time
V_Multipart == <<109, 117, 108, 116, 105, 112, 97, 114, 116, 47, 109, 105, 120, 101,
                 100, 59, 32, 98, 111, 117, 110, 100, 97, 114, 121, 61, 112, 105,
                 103, 101, 111, 110, 95>>

\* the data as the executions after the first one of the body template find it
SecondLook(d) == [d EXCEPT !.V = d.again]

\* writeTextPart: the bytes written to w and the error returned; nothing is
\* written when the template's execution fails
writeTextPart(tmpl, d) ==
    IF ~ExecOK(tmpl.bodyTmpl)
    THEN [err |-> "failed to execute template", out |-> <<>>]
    ELSE LET body == Execute(tmpl.bodyTmpl, d)
         IN  IF ~isASCII(body) \/ hasLongLines(body)
             THEN [err |-> Nil, out |-> QuotedPrintable(body)]
             ELSE [err |-> Nil, out |-> body]

\* the Content-Transfer-Encoding chosen at lines 175-181 and 201-207 from the
\* first rendering of the body, whose error is dropped
TextEncoding(tmpl, d) ==
    IF isASCII(Execute(tmpl.bodyTmpl, d)) /\ ~hasLongLines(Execute(tmpl.bodyTmpl, d))
    THEN V_7bit ELSE V_QP

\* mime.TypeByExtension(filepath.Ext(fname)), "application/octet-stream" when
\* the extension is unknown
ContentTypeOf(path) == IF path = "a.txt" THEN "text/plain; charset=utf-8"
                       ELSE "application/octet-stream"

\* addAttachmentPart with the error of os.ReadFile dropped
addAttachmentPart_IgnoreError(path) ==
    [err |-> Nil,
     part |-> [filename |-> path, ctype |-> ContentTypeOf(path), cte |-> "base64",
               body |-> encodeAndWrapBase64(ReadFile(path).data)]]

\* addAttachmentPart: the error of os.ReadFile, or the part
addAttachmentPart(path) ==
    IF ReadFile(path).err # Nil
    THEN [err |-> ReadFile(path).err, part |-> <<>>]
    ELSE [err |-> Nil,
          part |-> [filename |-> path, ctype |-> ContentTypeOf(path),
                    cte |-> "base64",
                    body |-> encodeAndWrapBase64(ReadFile(path).data)]]

\* the loop with each part put before the parts written so far
RECURSIVE AddAttachments_Prepend(_, _)
AddAttachments_Prepend(paths, parts) ==
    IF paths = <<>> THEN [err |-> Nil, parts |-> parts]
    ELSE IF addAttachmentPart(Head(paths)).err # Nil
    THEN [err |-> addAttachmentPart(Head(paths)).err, parts |-> parts]
    ELSE AddAttachments_Prepend(Tail(paths),
                                <<addAttachmentPart(Head(paths)).part>> \o parts)

\* the loop of lines 213-217: it stops at the first attachment that fails
RECURSIVE AddAttachments(_, _)
AddAttachments(paths, parts) ==
    IF paths = <<>> THEN [err |-> Nil, parts |-> parts]
    ELSE IF addAttachmentPart(Head(paths)).err # Nil
    THEN [err |-> addAttachmentPart(Head(paths)).err, parts |-> parts]
    ELSE AddAttachments(Tail(paths), Append(parts, addAttachmentPart(Head(paths)).part))

\* the folding loop of writeHeaders: what it writes for the rest of a value
\* when lineLen bytes of the current line are already written
RECURSIVE FoldRest(_, _)
FoldRest(remaining, lineLen) ==
    IF remaining = <<>> THEN <<>>
    ELSE LET wrap == maxLineLength - lineLen <= 0
             available == IF wrap THEN maxLineLength - 1 ELSE maxLineLength - lineLen
             pre == IF wrap THEN <<13, 10, 32>> ELSE <<>>
             found == {i \in (available \div 2 + 1)..(available - 1) :
                          i < Len(remaining) /\ remaining[i + 1] \in {32, 59}}
             breakPoint == IF found = {} THEN available
                           ELSE (CHOOSE i \in found : \A j \in found : j <= i) + 1
         IN  IF Len(remaining) <= available
             THEN pre \o remaining \o <<13, 10>>
             ELSE pre \o SubSeq(remaining, 1, breakPoint) \o <<13, 10, 32>>
                  \o FoldRest(SubSeq(remaining, breakPoint + 1, Len(remaining)), 1)

\* writeHeaders for one header: the line as it is when it fits, folded otherwise
writeHeader(k, v) ==
    IF Len(k) + 2 + Len(v) <= maxLineLength
    THEN k \o <<58, 32>> \o v \o <<13, 10>>
    ELSE k \o <<58, 32>> \o FoldRest(v, Len(k) + 2)

\* writeHeaders: what is written for each header; the order of the headers is
\* the order in which the map is ranged over
writeHeaders(h) == [k \in DOMAIN h |-> writeHeader(k, h[k])]

\* Send, lines 168-219: the message, single part or multipart/mixed
SendBody ==
    /\ op = "Send" /\ pc = "body"
    /\ IF cfg.Attachments = <<>>
       THEN /\ hdr' = HdrSet(HdrSet(hdr, H_ContentType, V_TextPlain),
                             H_CTE, TextEncoding(t, data))
            /\ msg' = [built |-> TRUE, multipart |-> FALSE, hdr |-> hdr',
                       head |-> writeHeaders(hdr'),
                       text |-> [hdr |-> NoHeader, body |-> writeTextPart(t, SecondLook(data)).out],
                       attachments |-> <<>>]
            /\ pc' = "dial"
            /\ UNCHANGED ret
       ELSE /\ hdr' = HdrSet(hdr, H_ContentType, V_Multipart)
            /\ LET textHdr == HdrSet(HdrSet(NoHeader, H_ContentType, V_TextPlain),
                                     H_CTE, TextEncoding(t, data))
                   a == AddAttachments(cfg.Attachments, <<>>)
               IN  IF a.err # Nil
                   THEN Return(FALSE, a.err) /\ UNCHANGED msg
                   ELSE /\ msg' = [built |-> TRUE, multipart |-> TRUE, hdr |-> hdr',
                                   head |-> writeHeaders(hdr'),
                                   text |-> [hdr |-> textHdr,
                                             body |-> writeTextPart(t, SecondLook(data)).out],
                                   attachments |-> a.parts]
                        /\ pc' = "dial"
                        /\ UNCHANGED ret
    /\ UNCHANGED <<inputs, t, src, from, session>>

\* ------------------------------------------------------------ the SMTP client

NoClient == [exists |-> FALSE, didHello |-> FALSE, helloErr |-> FALSE]

Cmd(name, arg, ok) == [cmd |-> name, arg |-> arg, ok |-> ok]

\* smtp.Client.hello: EHLO once, HELO when EHLO was refused; later calls
\* return the error of the first
HelloClient(c, ehloOK, heloOK) ==
    IF c.didHello THEN c
    ELSE [c EXCEPT !.didHello = TRUE, !.helloErr = ~ehloOK /\ ~heloOK]

HelloWire(c, w, name, ehloOK, heloOK) ==
    IF c.didHello THEN w
    ELSE IF ehloOK THEN Append(w, Cmd("EHLO", name, TRUE))
    ELSE w \o <<Cmd("EHLO", name, FALSE), Cmd("HELO", name, heloOK)>>

\* the name the client greets with: c.localName
LocalName == IF op = "Send" /\ cfg.Hello # "" THEN cfg.Hello ELSE "localhost"

\* recipients: To, Cc and Bcc split at commas, trimmed, empty entries dropped
RECURSIVE TrimAll(_)
TrimAll(ss) ==
    IF ss = <<>> THEN <<>>
    ELSE (IF TrimSpace(Head(ss)) # Empty THEN <<TrimSpace(Head(ss))>> ELSE <<>>)
         \o TrimAll(Tail(ss))

\* recipients with the Cc addresses ahead of the To addresses
recipients_CcFirst(h) ==
    TrimAll(Split(HdrGet(h, H_Cc), 44)) \o TrimAll(Split(HdrGet(h, H_To), 44))
    \o TrimAll(Split(HdrGet(h, H_Bcc), 44))

recipients(h) ==
    TrimAll(Split(HdrGet(h, H_To), 44)) \o TrimAll(Split(HdrGet(h, H_Cc), 44))
    \o TrimAll(Split(HdrGet(h, H_Bcc), 44))

\* ------------------------------------------------------------ Send: delivery

\* Send, lines 222-234: the dial, and the deferred conn.Close
SendDial ==
    /\ op = "Send" /\ pc = "dial"
    /\ \E ok \in BOOLEAN :
          IF ok
          THEN /\ conn' = "open"
               /\ wire' = Append(wire, Cmd("DIAL", Empty, TRUE))
               /\ defers' = Append(defers, "conn.Close")
               /\ pc' = "newclient"
               /\ UNCHANGED ret
          ELSE /\ wire' = Append(wire, Cmd("DIAL", Empty, FALSE))
               /\ Return(retryOf("dial"), "dial failed")
               /\ UNCHANGED <<conn, defers>>
    /\ UNCHANGED <<inputs, t, src, from, hdr, msg, rcpts, uniq, client>>

\* Send, lines 236-249: smtp.NewClient reads the greeting; when it fails it has
\* closed the connection itself.  Then the deferred c.Quit
SendNewClient ==
    /\ op = "Send" /\ pc = "newclient"
    /\ \E ok \in BOOLEAN :
          IF ok
          THEN /\ client' = [NoClient EXCEPT !.exists = TRUE]
               /\ wire' = Append(wire, Cmd("GREETING", Empty, TRUE))
               /\ defers' = Append(defers, "c.Quit")
               /\ pc' = "hello"
               /\ UNCHANGED <<conn, ret>>
          ELSE /\ conn' = "closed"
               /\ wire' = Append(wire, Cmd("GREETING", Empty, FALSE))
               /\ Return(retryOf("client"), "smtp.NewClient failed")
               /\ UNCHANGED <<client, defers>>
    /\ UNCHANGED <<inputs, t, src, from, hdr, msg, rcpts, uniq>>

\* Send, lines 251-253: c.Hello when cfg.Hello is set; its error is dropped
SendHello ==
    /\ op = "Send" /\ pc = "hello"
    /\ IF cfg.Hello # ""
       THEN \E ehloOK, heloOK \in BOOLEAN :
               /\ client' = HelloClient(client, ehloOK, heloOK)
               /\ wire' = HelloWire(client, wire, LocalName, ehloOK, heloOK)
       ELSE UNCHANGED <<client, wire>>
    /\ pc' = "mail"
    /\ UNCHANGED <<inputs, t, src, from, hdr, msg, rcpts, uniq, conn, defers, ret>>

\* SendMail with the error of c.Mail dropped
SendMail_IgnoreError ==
    /\ op = "Send" /\ pc = "mail"
    /\ \E ehloOK, heloOK, ok \in BOOLEAN :
          LET c == HelloClient(client, ehloOK, heloOK)
              w == HelloWire(client, wire, LocalName, ehloOK, heloOK)
          IN  /\ client' = c
              /\ IF c.helloErr
                 THEN /\ wire' = w
                      /\ Return(retryOf("mail"), "greeting refused")
                      /\ UNCHANGED rcpts
                 ELSE /\ wire' = Append(w, Cmd("MAIL", from, ok))
                      /\ IF ok
                         THEN /\ rcpts' = recipients(hdr)
                              /\ pc' = "rcpt"
                              /\ UNCHANGED ret
                         ELSE /\ rcpts' = recipients(hdr)
                              /\ pc' = "rcpt"
                              /\ UNCHANGED ret
    /\ UNCHANGED <<inputs, t, src, from, hdr, msg, uniq, conn, defers>>

\* Send, lines 255-257: c.Mail greets first when no greeting was sent, fails
\* with the greeting's error, and otherwise sends MAIL FROM
SendMail ==
    /\ op = "Send" /\ pc = "mail"
    /\ \E ehloOK, heloOK, ok \in BOOLEAN :
          LET c == HelloClient(client, ehloOK, heloOK)
              w == HelloWire(client, wire, LocalName, ehloOK, heloOK)
          IN  /\ client' = c
              /\ IF c.helloErr
                 THEN /\ wire' = w
                      /\ Return(retryOf("mail"), "greeting refused")
                      /\ UNCHANGED rcpts
                 ELSE /\ wire' = Append(w, Cmd("MAIL", from, ok))
                      /\ IF ok
                         THEN /\ rcpts' = recipients(hdr)
                              /\ pc' = "rcpt"
                              /\ UNCHANGED ret
                         ELSE Return(retryOf("mail"), "MAIL FROM rejected") /\ UNCHANGED rcpts
    /\ UNCHANGED <<inputs, t, src, from, hdr, msg, uniq, conn, defers>>

\* SendRcpt with a rejected recipient passed over
SendRcpt_Continue ==
    /\ op = "Send" /\ pc = "rcpt" /\ rcpts # <<>>
    /\ \E ok \in BOOLEAN :
          /\ wire' = Append(wire, Cmd("RCPT", Head(rcpts), ok))
          /\ IF ok
             THEN rcpts' = Tail(rcpts) /\ UNCHANGED <<pc, ret>>
             ELSE rcpts' = Tail(rcpts) /\ UNCHANGED <<pc, ret>>
    /\ UNCHANGED <<inputs, t, src, from, hdr, msg, uniq, conn, client, defers>>

\* Send, lines 259-263: one iteration of the recipient loop
SendRcpt ==
    /\ op = "Send" /\ pc = "rcpt" /\ rcpts # <<>>
    /\ \E ok \in BOOLEAN :
          /\ wire' = Append(wire, Cmd("RCPT", Head(rcpts), ok))
          /\ IF ok
             THEN rcpts' = Tail(rcpts) /\ UNCHANGED <<pc, ret>>
             ELSE Return(retryOf("rcpt"), "RCPT TO rejected") /\ UNCHANGED rcpts
    /\ UNCHANGED <<inputs, t, src, from, hdr, msg, uniq, conn, client, defers>>

\* SendData without waiting for the recipient loop to end
SendData_Early ==
    /\ op = "Send" /\ pc = "rcpt"
    /\ \E ok \in BOOLEAN :
          /\ wire' = Append(wire, Cmd("DATA", Empty, ok))
          /\ IF ok
             THEN pc' = "write" /\ UNCHANGED ret
             ELSE Return(retryOf("data"), "DATA refused")
    /\ UNCHANGED <<inputs, t, src, from, hdr, msg, rcpts, uniq, conn, client, defers>>

\* Send, lines 265-268: c.Data, once the loop is over
SendData ==
    /\ op = "Send" /\ pc = "rcpt" /\ rcpts = <<>>
    /\ \E ok \in BOOLEAN :
          /\ wire' = Append(wire, Cmd("DATA", Empty, ok))
          /\ IF ok
             THEN pc' = "write" /\ UNCHANGED ret
             ELSE Return(retryOf("data"), "DATA refused")
    /\ UNCHANGED <<inputs, t, src, from, hdr, msg, rcpts, uniq, conn, client, defers>>

\* Send, lines 269-271: msg.WriteTo(wc)
SendWrite ==
    /\ op = "Send" /\ pc = "write"
    /\ \E ok \in BOOLEAN :
          /\ wire' = Append(wire, Cmd("MESSAGE", msg, ok))
          /\ IF ok
             THEN pc' = "close" /\ UNCHANGED ret
             ELSE Return(retryOf("write"), "write failed")
    /\ UNCHANGED <<inputs, t, src, from, hdr, msg, rcpts, uniq, conn, client, defers>>

\* SendCloseData returning retry=true without an error after a delivery
SendCloseData_RetryWithoutError ==
    /\ op = "Send" /\ pc = "close"
    /\ \E ok \in BOOLEAN :
          /\ wire' = Append(wire, Cmd("END", Empty, ok))
          /\ IF ok THEN Return(TRUE, Nil) ELSE Return(retryOf("close"), "DATA close failed")
    /\ UNCHANGED <<inputs, t, src, from, hdr, msg, rcpts, uniq, conn, client, defers>>

\* Send, lines 272-275: wc.Close ends the data and reads the relay's answer
SendCloseData ==
    /\ op = "Send" /\ pc = "close"
    /\ \E ok \in BOOLEAN :
          /\ wire' = Append(wire, Cmd("END", Empty, ok))
          /\ IF ok THEN Return(FALSE, Nil) ELSE Return(retryOf("close"), "DATA close failed")
    /\ UNCHANGED <<inputs, t, src, from, hdr, msg, rcpts, uniq, conn, client, defers>>

\* c.Quit: the greeting if none was sent, then QUIT; an accepted QUIT closes
\* the connection; on a closed connection nothing reaches the relay
QuitWire(c, w, ehloOK, heloOK, ok) ==
    IF conn = "closed" THEN w
    ELSE Append(HelloWire(c, w, LocalName, ehloOK, heloOK), Cmd("QUIT", Empty, ok))

QuitConn(ok) == IF conn = "open" /\ ok THEN "closed" ELSE conn

\* DeferQuit with the error of c.Quit assigned to the results
DeferQuit_Escalate ==
    /\ pc = "defer" /\ defers # <<>> /\ defers[Len(defers)] = "c.Quit"
    /\ \E ehloOK, heloOK, ok \in BOOLEAN :
          /\ client' = HelloClient(client, ehloOK, heloOK)
          /\ wire' = QuitWire(client, wire, ehloOK, heloOK, ok)
          /\ conn' = QuitConn(ok)
          /\ ret' = IF ok THEN ret
                    ELSE [returned |-> TRUE, retry |-> TRUE, err |-> "QUIT failed"]
    /\ defers' = SubSeq(defers, 1, Len(defers) - 1)
    /\ pc' = IF Len(defers) = 1 THEN "done" ELSE "defer"
    /\ UNCHANGED <<inputs, t, src, from, hdr, msg, rcpts, uniq>>

\* a deferred c.Quit (Send, lines 245-249; SendRaw, line 446): its error is
\* dropped
DeferQuit ==
    /\ pc = "defer" /\ defers # <<>> /\ defers[Len(defers)] = "c.Quit"
    /\ \E ehloOK, heloOK, ok \in BOOLEAN :
          /\ client' = HelloClient(client, ehloOK, heloOK)
          /\ wire' = QuitWire(client, wire, ehloOK, heloOK, ok)
          /\ conn' = QuitConn(ok)
    /\ defers' = SubSeq(defers, 1, Len(defers) - 1)
    /\ pc' = IF Len(defers) = 1 THEN "done" ELSE "defer"
    /\ UNCHANGED <<inputs, t, src, from, hdr, msg, rcpts, uniq, ret>>

\* DeferConnClose without the close
DeferConnClose_Skip ==
    /\ pc = "defer" /\ defers # <<>> /\ defers[Len(defers)] = "conn.Close"
    /\ conn' = conn
    /\ defers' = SubSeq(defers, 1, Len(defers) - 1)
    /\ pc' = IF Len(defers) = 1 THEN "done" ELSE "defer"
    /\ UNCHANGED <<inputs, t, src, from, hdr, msg, rcpts, uniq, client, wire, ret>>

\* a deferred conn.Close (Send, line 234; SendRaw, line 440)
DeferConnClose ==
    /\ pc = "defer" /\ defers # <<>> /\ defers[Len(defers)] = "conn.Close"
    /\ conn' = "closed"
    /\ defers' = SubSeq(defers, 1, Len(defers) - 1)
    /\ pc' = IF Len(defers) = 1 THEN "done" ELSE "defer"
    /\ UNCHANGED <<inputs, t, src, from, hdr, msg, rcpts, uniq, client, wire, ret>>

\* ------------------------------------------------------------------ net/mail

\* atext of RFC 5322
IsAtext(c) ==
    \/ IsUpper(c) \/ IsLower(c) \/ (c >= 48 /\ c <= 57)
    \/ c \in {33, 35, 36, 37, 38, 39, 42, 43, 45, 47, 61, 63, 94, 95, 96, 123, 124,
              125, 126}

\* a dot-atom: atext runs separated by single dots
IsDotAtom(s) ==
    /\ s # <<>>
    /\ \A i \in 1..Len(s) : IsAtext(s[i]) \/ s[i] = 46
    /\ s[1] # 46 /\ s[Len(s)] # 46
    /\ \A i \in 1..(Len(s) - 1) : ~(s[i] = 46 /\ s[i + 1] = 46)

\* an addr-spec local@domain made of dot-atoms
IsAddrSpec(s) ==
    \E i \in 1..Len(s) :
        /\ s[i] = 64
        /\ IsDotAtom(SubSeq(s, 1, i - 1))
        /\ IsDotAtom(SubSeq(s, i + 1, Len(s)))

\* a display name made of atoms, dots and blanks
IsPhrase(s) == \A i \in 1..Len(s) : IsAtext(s[i]) \/ s[i] \in {32, 9, 46}

\* mail.ParseAddress on the address forms of the model: "local@domain",
\* "<local@domain>" and "Name <local@domain>"
ParseAddress(s) ==
    LET u == TrimSpace(s)
    IN  IF IsAddrSpec(u) THEN [ok |-> TRUE, addr |-> u]
        ELSE IF /\ Len(u) >= 2 /\ u[Len(u)] = 62
                /\ \E i \in 1..Len(u) :
                      /\ u[i] = 60
                      /\ IsPhrase(SubSeq(u, 1, i - 1))
                      /\ IsAddrSpec(SubSeq(u, i + 1, Len(u) - 1))
        THEN [ok |-> TRUE,
              addr |-> LET i == CHOOSE i \in 1..Len(u) :
                                   /\ u[i] = 60
                                   /\ IsPhrase(SubSeq(u, 1, i - 1))
                                   /\ IsAddrSpec(SubSeq(u, i + 1, Len(u) - 1))
                       IN  SubSeq(u, i + 1, Len(u) - 1)]
        ELSE [ok |-> FALSE, addr |-> Empty]

RECURSIVE AddressesOf(_)
AddressesOf(ss) ==
    IF ss = <<>> THEN <<>> ELSE <<ParseAddress(Head(ss)).addr>> \o AddressesOf(Tail(ss))

\* mail.ParseAddressList: the addresses between the commas, empty entries
\* skipped; an error when an entry is no address or when there is none
ParseAddressList(list) ==
    LET entries == TrimAll(Split(list, 44))
    IN  IF entries = <<>> \/ \E i \in 1..Len(entries) : ~ParseAddress(entries[i]).ok
        THEN [ok |-> FALSE, addrs |-> <<>>]
        ELSE [ok |-> TRUE, addrs |-> AddressesOf(entries)]

\* parseAddressList: the parsed addresses, or the comma-separated entries
\* when the list does not parse
parseAddressList(list) ==
    IF list = Empty THEN <<>>
    ELSE IF ParseAddressList(list).ok THEN ParseAddressList(list).addrs
    ELSE TrimAll(Split(list, 44))

\* the first match of the regular expression <([^>]+)>
AngleMatch(s) ==
    LET starts == {i \in 1..Len(s) :
                      /\ s[i] = 60
                      /\ i + 1 <= Len(s) /\ s[i + 1] # 62
                      /\ \E j \in (i + 2)..Len(s) : s[j] = 62}
    IN  IF starts = {} THEN [ok |-> FALSE, addr |-> Empty]
        ELSE LET i == CHOOSE i \in starts : \A k \in starts : i <= k
                 j == CHOOSE j \in (i + 2)..Len(s) :
                          s[j] = 62 /\ \A k \in (i + 1)..(j - 1) : s[k] # 62
             IN  [ok |-> TRUE, addr |-> SubSeq(s, i + 1, j - 1)]

\* extractAddr: the address alone, or an error
extractAddr(addr) ==
    IF ParseAddress(addr).ok THEN [err |-> Nil, addr |-> ParseAddress(addr).addr]
    ELSE IF AngleMatch(addr).ok THEN [err |-> Nil, addr |-> AngleMatch(addr).addr]
    ELSE IF \E i \in 1..Len(addr) : addr[i] = 64
    THEN [err |-> Nil, addr |-> TrimSpace(addr)]
    ELSE [err |-> "invalid address format", addr |-> Empty]

\* ------------------------------------------------------------------ SendRaw

\* strings.Trim of blanks and tabs, as ReadMIMEHeader trims a value
RECURSIVE TrimBlank(_)
TrimBlank(s) ==
    IF s # <<>> /\ Head(s) \in {32, 9} THEN TrimBlank(Tail(s))
    ELSE IF s # <<>> /\ s[Len(s)] \in {32, 9} THEN TrimBlank(SubSeq(s, 1, Len(s) - 1))
    ELSE s

\* textproto.Reader.ReadMIMEHeader over the lines of a message without folded
\* lines: the first value of each key, an error for a line without a colon or
\* with a malformed key, and an error when the input ends before an empty line
RECURSIVE ReadMIMEHeader(_, _, _)
ReadMIMEHeader(lines, h, n) ==
    IF lines = <<>> THEN [err |-> "EOF", hdr |-> h, n |-> n]
    ELSE LET line == StripCR(Head(lines))
             c == CutColon(line)
             k == CanonicalMIMEHeaderKey(c.k)
         IN  IF line = <<>> THEN [err |-> Nil, hdr |-> h, n |-> n + 1]
             ELSE IF ~c.found \/ \E i \in 1..Len(c.k) : ~validHeaderFieldByte(c.k[i])
             THEN [err |-> "malformed MIME header line", hdr |-> h, n |-> n]
             ELSE IF k = Empty \/ k \in DOMAIN h
             THEN ReadMIMEHeader(Tail(lines), h, n + 1)
             ELSE ReadMIMEHeader(Tail(lines), HdrSet(h, k, TrimBlank(c.v)), n + 1)

\* the header block of the raw message
RawHeader == ReadMIMEHeader(Split(raw.content, 10), NoHeader, 0)

\* what the buffered reader still holds once the header block is read: the body
RawBody ==
    Join(SubSeq(Split(raw.content, 10), RawHeader.n + 1, Len(Split(raw.content, 10))), 10)

\* SendRaw returns an error alone: retry is not part of its result
ReturnErr(err) ==
    /\ ret' = [returned |-> TRUE, retry |-> FALSE, err |-> err]
    /\ pc' = IF defers = <<>> THEN "done" ELSE "defer"

\* SendRaw, lines 412-429: the header block, the sender and the recipients
RawParse ==
    /\ op = "SendRaw" /\ pc = "start"
    /\ IF RawHeader.err # Nil
       THEN ReturnErr("failed to parse header") /\ UNCHANGED <<from, rcpts>>
       ELSE IF HdrGet(RawHeader.hdr, H_From) = Empty
       THEN ReturnErr("missing from address") /\ UNCHANGED <<from, rcpts>>
       ELSE LET toAll == parseAddressList(HdrGet(RawHeader.hdr, H_To))
                         \o parseAddressList(HdrGet(RawHeader.hdr, H_Cc))
                         \o parseAddressList(HdrGet(RawHeader.hdr, H_Bcc))
            IN  IF toAll = <<>>
                THEN ReturnErr("no recipients found in To/Cc/Bcc")
                     /\ UNCHANGED <<from, rcpts>>
                ELSE /\ from' = HdrGet(RawHeader.hdr, H_From)
                     /\ rcpts' = toAll
                     /\ pc' = "dial"
                     /\ UNCHANGED ret
    /\ UNCHANGED <<inputs, t, src, hdr, msg, uniq, conn, client, defers, wire>>

\* SendRaw, lines 431-440: the dial, and the deferred conn.Close
RawDial ==
    /\ op = "SendRaw" /\ pc = "dial"
    /\ \E ok \in BOOLEAN :
          IF ok
          THEN /\ conn' = "open"
               /\ wire' = Append(wire, Cmd("DIAL", Empty, TRUE))
               /\ defers' = Append(defers, "conn.Close")
               /\ pc' = "newclient"
               /\ UNCHANGED ret
          ELSE /\ wire' = Append(wire, Cmd("DIAL", Empty, FALSE))
               /\ ReturnErr("failed to dial smtp")
               /\ UNCHANGED <<conn, defers>>
    /\ UNCHANGED <<inputs, t, src, from, hdr, msg, rcpts, uniq, client>>

\* SendRaw, lines 442-446: smtp.NewClient, and the deferred client.Quit
RawNewClient ==
    /\ op = "SendRaw" /\ pc = "newclient"
    /\ \E ok \in BOOLEAN :
          IF ok
          THEN /\ client' = [NoClient EXCEPT !.exists = TRUE]
               /\ wire' = Append(wire, Cmd("GREETING", Empty, TRUE))
               /\ defers' = Append(defers, "c.Quit")
               /\ pc' = "mail"
               /\ UNCHANGED <<conn, ret>>
          ELSE /\ conn' = "closed"
               /\ wire' = Append(wire, Cmd("GREETING", Empty, FALSE))
               /\ ReturnErr("smtp.NewClient failed")
               /\ UNCHANGED <<client, defers>>
    /\ UNCHANGED <<inputs, t, src, from, hdr, msg, rcpts, uniq>>

\* SendRaw, lines 448-454: the sender's address, then MAIL FROM
RawMail ==
    /\ op = "SendRaw" /\ pc = "mail"
    /\ IF extractAddr(from).err # Nil
       THEN ReturnErr("parse From") /\ UNCHANGED <<client, wire>>
       ELSE \E ehloOK, heloOK, ok \in BOOLEAN :
               LET c == HelloClient(client, ehloOK, heloOK)
                   w == HelloWire(client, wire, LocalName, ehloOK, heloOK)
               IN  /\ client' = c
                   /\ IF c.helloErr
                      THEN wire' = w /\ ReturnErr("MAIL FROM failed")
                      ELSE /\ wire' = Append(w, Cmd("MAIL", extractAddr(from).addr, ok))
                           /\ IF ok THEN pc' = "rcpt" /\ UNCHANGED ret
                              ELSE ReturnErr("MAIL FROM failed")
    /\ UNCHANGED <<inputs, t, src, from, hdr, msg, rcpts, uniq, conn, defers>>

\* the recipient loop without the test of uniq
RawRcpt_NoDedup ==
    /\ op = "SendRaw" /\ pc = "rcpt" /\ rcpts # <<>>
    /\ LET a == extractAddr(Head(rcpts))
       IN  IF a.err # Nil
           THEN rcpts' = Tail(rcpts) /\ UNCHANGED <<uniq, wire, pc, ret>>
           ELSE \E ok \in BOOLEAN :
                   /\ wire' = Append(wire, Cmd("RCPT", a.addr, ok))
                   /\ IF ok
                      THEN /\ uniq' = uniq \cup {a.addr}
                           /\ rcpts' = Tail(rcpts)
                           /\ UNCHANGED <<pc, ret>>
                      ELSE ReturnErr("RCPT TO failed") /\ UNCHANGED <<uniq, rcpts>>
    /\ UNCHANGED <<inputs, t, src, from, hdr, msg, conn, client, defers>>

\* SendRaw, lines 457-469: one iteration of the recipient loop; an entry
\* without an address and an address already accepted are passed over
RawRcpt ==
    /\ op = "SendRaw" /\ pc = "rcpt" /\ rcpts # <<>>
    /\ LET a == extractAddr(Head(rcpts))
       IN  IF a.err # Nil \/ a.addr \in uniq
           THEN rcpts' = Tail(rcpts) /\ UNCHANGED <<uniq, wire, pc, ret>>
           ELSE \E ok \in BOOLEAN :
                   /\ wire' = Append(wire, Cmd("RCPT", a.addr, ok))
                   /\ IF ok
                      THEN /\ uniq' = uniq \cup {a.addr}
                           /\ rcpts' = Tail(rcpts)
                           /\ UNCHANGED <<pc, ret>>
                      ELSE ReturnErr("RCPT TO failed") /\ UNCHANGED <<uniq, rcpts>>
    /\ UNCHANGED <<inputs, t, src, from, hdr, msg, conn, client, defers>>

\* SendRaw, lines 471-474: client.Data, once the loop is over
RawData ==
    /\ op = "SendRaw" /\ pc = "rcpt" /\ rcpts = <<>>
    /\ \E ok \in BOOLEAN :
          /\ wire' = Append(wire, Cmd("DATA", Empty, ok))
          /\ IF ok THEN pc' = "write" /\ UNCHANGED ret
             ELSE ReturnErr("SMTP DATA failed")
    /\ UNCHANGED <<inputs, t, src, from, hdr, msg, rcpts, uniq, conn, client, defers>>

\* SendRaw, lines 476-482: io.Copy(wc, tp.R) writes what the buffered reader
\* still holds, the body, and then what raw yields: the whole message again
\* when raw was rewound by Seek, nothing more otherwise
RawCopy ==
    /\ op = "SendRaw" /\ pc = "write"
    /\ \E ok \in BOOLEAN :
          /\ wire' = Append(wire, Cmd("MESSAGE", RawBody \o (IF raw.seekable
                                                             THEN raw.content
                                                             ELSE <<>>), ok))
          /\ IF ok THEN pc' = "close" /\ UNCHANGED ret
             ELSE ReturnErr("sending mail data failed")
    /\ UNCHANGED <<inputs, t, src, from, hdr, msg, rcpts, uniq, conn, client, defers>>

\* SendRaw, lines 483-487: wc.Close, then client.Quit before the return
RawCloseData ==
    /\ op = "SendRaw" /\ pc = "close"
    /\ \E ok, quitOK \in BOOLEAN :
          IF ok
          THEN /\ wire' = QuitWire(client, Append(wire, Cmd("END", Empty, TRUE)),
                                   TRUE, TRUE, quitOK)
               /\ conn' = QuitConn(quitOK)
               /\ ReturnErr(Nil)
          ELSE /\ wire' = Append(wire, Cmd("END", Empty, FALSE))
               /\ ReturnErr("DATA close")
               /\ UNCHANGED conn
    /\ UNCHANGED <<inputs, t, src, from, hdr, msg, rcpts, uniq, client, defers>>

\* ---------------------------------------------------------------- the calls

\* "a, b, ...": n one-letter addresses starting at the letter first
RECURSIVE AddrList(_, _)
AddrList(first, n) ==
    IF n = 0 THEN <<>>
    ELSE IF n = 1 THEN <<first>>
    ELSE <<first, 44, 32>> \o AddrList(first + 1, n - 1)

\* a header line "Name: value", none when the value is empty
OptLine(name, v) == IF v = Empty THEN <<>> ELSE <<name \o <<58, 32>> \o v>>

\* a template file: header lines, an empty line, the body
TplContent(in) ==
    Join(OptLine(IF in.lower THEN LowerStr(H_From) ELSE H_From, in.tf)
         \o OptLine(H_To, in.tt) \o OptLine(H_Cc, in.tc) \o OptLine(H_Bcc, in.tb)
         \o OptLine(IF in.lower THEN LowerStr(H_Sub) ELSE H_Sub, in.ts)
         \o <<Empty, in.body>>, 10)

\* the arguments of a Send call and the template file it finds. The data has
\* one field: V is what {{.V}} renders to, and again is what it renders to in
\* executions after the first one of the body template. The two are the same
\* for a plain value and differ for a value whose method, function or channel
\* gives something else each time it is used
SendCall(in) ==
    [op |-> "Send",
     cfg |-> [TemplatePath |-> in.path, Smarthost |-> in.host,
              From |-> in.cf, To |-> in.ct, Cc |-> in.cc, Bcc |-> in.cb,
              Hello |-> in.hello, Headers |-> in.headers,
              Attachments |-> in.att, Timezone |-> in.tz],
     file |-> [exists |-> in.exists, content |-> TplContent(in)],
     data |-> [V |-> in.V, again |-> IF in.varies THEN in.again ELSE in.V],
     raw |-> Nil]

\* From: f, To: a, b, Sub: Hi, body "Hello {{.V}}", data V = "Bob"
Base ==
    [tf |-> <<102>>, tt |-> AddrList(97, NumTo), tc |-> Empty, tb |-> Empty,
     ts |-> <<72, 105>>, body |-> <<72, 101, 108, 108, 111, 32, TokVar>>,
     cf |-> Empty, ct |-> Empty, cc |-> Empty, cb |-> Empty,
     V |-> <<66, 111, 98>>, varies |-> FALSE, again |-> Empty, lower |-> FALSE, hello |-> "", headers |-> NoHeader,
     att |-> <<>>, tz |-> "", path |-> "mail.tmpl",
     host |-> [Host |-> "relay", Port |-> "25"], exists |-> TRUE]

\* a template value: absent, literal, or {{.V}}
TplVals(lit) == {Empty, lit, <<TokVar>>}
CfgVals(lit) == {Empty, lit}

\* every combination of template and configuration values of the four address
\* headers, with data that renders {{.V}} as "v" or as ""
ResolveInputs ==
    {[Base EXCEPT !.tf = tf, !.cf = cf, !.tt = tt, !.ct = ct, !.tc = tc, !.cc = cc,
                  !.tb = tb, !.cb = cb, !.V = v] :
        tf \in TplVals(<<102>>), cf \in CfgVals(<<103>>),
        tt \in TplVals(AddrList(97, NumTo)), ct \in CfgVals(<<114>>),
        tc \in TplVals(<<99>>), cc \in CfgVals(<<100>>),
        tb \in TplVals(<<104>>), cb \in CfgVals(<<105>>),
        v \in {Empty, <<118>>}}

\* a template that does not parse and two whose execution fails
Broken == {<<TokBad>>, <<TokErr>>, <<120, TokErr, 121>>}

\* one broken template among the header values and the body
BrokenInputs ==
    {[Base EXCEPT !.tf = x] : x \in Broken} \cup {[Base EXCEPT !.tt = x] : x \in Broken}
    \cup {[Base EXCEPT !.tc = x] : x \in Broken}
    \cup {[Base EXCEPT !.tb = x] : x \in Broken}
    \cup {[Base EXCEPT !.ts = x] : x \in Broken}
    \cup {[Base EXCEPT !.body = x] : x \in Broken}
    \cup {[Base EXCEPT !.tf = Empty, !.cf = x] : x \in Broken}
    \cup {[Base EXCEPT !.tc = <<99>>, !.body = x] : x \in Broken}

\* custom header maps: harmless ones, empty values, and names of the headers
\* Send sets itself, in several letter cases
HeaderMaps ==
    {NoHeader,
     H_XApp :> <<112>>,
     H_XApp :> Empty,
     LowerStr(H_From) :> <<120>>,
     H_To :> <<122>>,
     H_To :> Empty,
     H_Cc :> <<113>>,
     LowerStr(H_Bcc) :> <<119>>,
     H_Subject :> <<115>>,
     LowerStr(H_Date) :> <<100>>,
     H_MIMEVersion :> <<50>>,
     (H_XApp :> <<112>>) @@ (LowerStr(H_XApp) :> <<113>>),
     (H_From :> <<120>>) @@ (LowerStr(H_From) :> <<121>>)}

\* "word; " n times
Words(n) == [i \in 1..(6 * n) |-> <<119, 111, 114, 100, 59, 32>>[((i - 1) % 6) + 1]]

\* custom headers longer than a line: values with and without places to
\* break at, and names that leave little or no room on the first line
LongHeaderMaps ==
    {H_XApp :> Words(30),
     H_XApp :> [i \in 1..200 |-> 97],
     H_XApp :> [i \in 1..74 |-> 97],
     (<<88, 45>> \o [i \in 1..(maxLineLength - 4) |-> 97]) :> <<112, 113>>,
     (<<88, 45>> \o [i \in 1..(maxLineLength - 3) |-> 97]) :> <<112>>,
     (<<88, 45>> \o [i \in 1..(maxLineLength - 20) |-> 97]) :> Words(20)}

HeaderInputs ==
    {[Base EXCEPT !.headers = h, !.tc = tc] : h \in HeaderMaps, tc \in {Empty, <<99>>}}
    \cup {[Base EXCEPT !.headers = h] : h \in LongHeaderMaps}

Paths == {"a.txt", "b.bin", "c.dat", "gone.bin"}

AttachmentLists ==
    UNION {[1..n -> Paths] : n \in 0..MaxAttachments}

AttachmentInputs ==
    {[Base EXCEPT !.att = a, !.body = b] :
        a \in AttachmentLists, b \in {Base.body, <<72, 195, 169>>}}

\* the remaining fields: greeting name, time zone, template path, smarthost,
\* a missing file, lower-case header names, a subject that is not ASCII; and
\* address lists with empty entries, spaces and tabs around the entries and
\* inside one, and an address given both in To and in Cc
OtherInputs ==
    {[Base EXCEPT !.hello = "me"], [Base EXCEPT !.tz = "Asia/Tokyo"],
     [Base EXCEPT !.tz = "Mars/Base"], [Base EXCEPT !.path = ""],
     [Base EXCEPT !.host = [Host |-> "", Port |-> ""]],
     [Base EXCEPT !.exists = FALSE], [Base EXCEPT !.lower = TRUE],
     [Base EXCEPT !.ts = Empty], [Base EXCEPT !.ts = <<195, 169, 61>>],
     [Base EXCEPT !.tt = <<32, 97, 32, 44, 44, 32, 98, 44>>, !.tc = <<97>>,
                  !.tb = <<32, 44, 9, 99, 32, 100, 32>>]}

\* n copies of the byte b
Rep(b, n) == [i \in 1..n |-> b]

\* bodies around the line limit: a line of 77 bytes, lines of 76 bytes ended
\* by "\n" and by "\r\n", bytes that are not ASCII, a space that ends a line
Bodies ==
    {Rep(97, maxContentLength + 1),
     Rep(97, maxContentLength) \o <<10, 98>>,
     Rep(97, maxContentLength) \o <<13, 10, 98>>,
     Rep(195, 30),
     <<195>> \o Rep(98, maxContentLength - 2) \o <<32, 10, 99, 61>>,
     Rep(97, 2 * maxContentLength) \o <<TokErr>>}

BodyInputs ==
    {[Base EXCEPT !.body = b, !.att = a] : b \in Bodies, a \in {<<>>, <<"c.dat">>}}

\* subjects: ASCII with "=", a run of non-ASCII bytes long enough for the
\* quoted-printable writer to break the line, "?=" after a non-ASCII byte, and
\* {{.V}} rendered from non-ASCII data
SubjectInputs ==
    {[Base EXCEPT !.ts = x] :
        x \in {<<97, 61, 98>>, Rep(195, 30), <<195, 169, 63, 61, 32, 97>>}}
    \cup {[Base EXCEPT !.ts = <<82, 101, 58, 32, TokVar>>, !.V = <<195, 169>>]}

\* data whose {{.V}} changes between the two executions of the body template:
\* from ASCII to non-ASCII and back, without and with an attachment
VaryingInputs ==
    {[Base EXCEPT !.V = p[1], !.varies = TRUE, !.again = p[2], !.att = a] :
        p \in {<< <<66, 111, 98>>, <<195, 169>> >>, << <<195, 169>>, <<66, 111, 98>> >>},
        a \in {<<>>, <<"a.txt">>}}

\* template files written by hand: names with spaces around them and in other
\* letter cases, a name given twice, a line without a colon, a value with a
\* colon and one with {{.V}}, header-like lines in the body; "\r\n" line
\* ends; no empty line at all; a line of spaces among the headers
TemplateFiles ==
    {Join(<< <<32, 115, 117, 98, 32, 58, 32, 32, 79, 108, 100, 32>>,
             <<84, 111, 58, 32, 120>>,
             <<110, 111, 99, 111, 108, 111, 110>>,
             <<116, 111, 58, 32, 32, 97, 44, 32, 98, 32>>,
             <<70, 114, 111, 109, 58, TokVar, 64, 102>>,
             <<83, 85, 66, 58, 32, 78, 101, 119, 58, 32, 120>>,
             <<>>,
             <<72, 105, 32, TokVar>>,
             <<>>,
             <<84, 111, 58, 32, 110, 111>> >>, 10),
     <<70, 114, 111, 109, 58, 32, 102, 13, 10, 84, 111, 58, 32, 97, 13, 10,
       83, 117, 98, 58, 32, 72, 105, 13, 10, 13, 10, 72, 105, 13, 10>>,
     <<70, 114, 111, 109, 58, 32, 102, 10, 84, 111, 58, 32, 97>>,
     <<70, 114, 111, 109, 58, 32, 102, 10, 32, 32, 10, 84, 111, 58, 32, 97, 10, 10, 72, 105>>}

\* Send calls that find these files
TemplateCalls == {[SendCall(Base) EXCEPT !.file.content = c] : c \in TemplateFiles}

SendCalls ==
    TemplateCalls \cup
    {SendCall(in) : in \in ResolveInputs \cup BrokenInputs \cup HeaderInputs
                           \cup AttachmentInputs \cup OtherInputs \cup BodyInputs
                           \cup SubjectInputs \cup VaryingInputs}

\* raw messages
R_Sender == <<115, 64, 120, 46, 105, 111>>  \* s@x.io
R_Named == <<83, 117, 101, 32, 60, 115, 64, 120, 46, 105, 111, 62>>  \* Sue <s@x.io>
R_NoAt == <<110, 111, 98, 111, 100, 121>>  \* nobody
R_A == <<97, 64, 120, 46, 105, 111>>  \* a@x.io
R_ANamed == <<65, 108, 32, 60, 97, 64, 120, 46, 105, 111, 62>>  \* Al <a@x.io>
R_B == <<98, 64, 120, 46, 105, 111>>  \* b@x.io

RawFroms == {Empty, R_Sender, R_Named, R_NoAt}
RawTos == {Empty, R_A, R_A \o <<44, 32>> \o R_ANamed \o <<44>> \o R_B, R_NoAt}
RawCcs == {Empty, R_A, R_NoAt \o <<44>> \o R_B}

RawContent(f, to, cc, body) ==
    Join(OptLine(H_From, f) \o OptLine(H_To, to) \o OptLine(H_Cc, cc)
         \o <<Empty, body>>, 10)

RawMessages ==
    {RawContent(f, to, cc, <<72, 105>>) : f \in RawFroms, to \in RawTos, cc \in RawCcs}
    \cup {RawContent(R_Sender, R_ANamed \o <<44, 32>> \o R_NoAt,
                      R_A \o <<44>> \o R_B, <<72, 105>>)}
    \cup {H_From \o <<58>> \o R_Sender,
          R_NoAt \o <<10>> \o H_To \o <<58>> \o R_A \o <<10, 10>>}

RawCalls ==
    {[op |-> "SendRaw", cfg |-> Nil, file |-> Nil, data |-> Nil,
      raw |-> [content |-> c, seekable |-> sk]] :
        c \in RawMessages, sk \in BOOLEAN}

Init ==
    /\ \E call \in SendCalls \cup RawCalls :
          /\ op = call.op
          /\ cfg = call.cfg
          /\ file = call.file
          /\ data = call.data
          /\ raw = call.raw
    /\ pc = "start"
    /\ t = NoTemplate
    /\ src = NoSrc
    /\ from = Empty
    /\ hdr = NoHeader
    /\ msg = NoMsg
    /\ rcpts = <<>>
    /\ uniq = {}
    /\ conn = "none"
    /\ client = NoClient
    /\ defers = <<>>
    /\ wire = <<>>
    /\ ret = NoRet
    /\ other = Nil

Next ==
    \/ SendParse \/ SendFrom \/ SendTo \/ SendCc \/ SendBcc \/ SendSubject
    \/ SendRequired \/ SendCustomHeaders \/ SendBody
    \/ SendDial \/ SendNewClient \/ SendHello \/ SendMail \/ SendRcpt \/ SendData
    \/ SendWrite \/ SendCloseData
    \/ RawParse \/ RawDial \/ RawNewClient \/ RawMail \/ RawRcpt \/ RawData
    \/ RawCopy \/ RawCloseData
    \/ DeferQuit \/ DeferConnClose

Spec == Init /\ [][Next]_vars

\* ----------------------------------------------------------- concurrent calls

\* the arguments and the local variables of the running call. Send declares
\* all of them inside its body (t, the templates and buffers, hdr, msg, conn,
\* c, wc; the named results retry and err); the package has no variables,
\* only the constants maxLineLength and maxContentLength
Frame ==
    [op |-> op, cfg |-> cfg, file |-> file, data |-> data, raw |-> raw, pc |-> pc,
     t |-> t, src |-> src, from |-> from, hdr |-> hdr, msg |-> msg, rcpts |-> rcpts,
     uniq |-> uniq, conn |-> conn, client |-> client, defers |-> defers,
     wire |-> wire, ret |-> ret]

\* the frame of a call that has not begun
NewFrame(call) ==
    [op |-> call.op, cfg |-> call.cfg, file |-> call.file, data |-> call.data,
     raw |-> call.raw, pc |-> "start", t |-> NoTemplate, src |-> NoSrc,
     from |-> Empty, hdr |-> NoHeader, msg |-> NoMsg, rcpts |-> <<>>, uniq |-> {},
     conn |-> "none", client |-> NoClient, defers |-> <<>>, wire |-> <<>>,
     ret |-> NoRet]

\* Switch with hdr left in place, as if hdr were a variable of the package
Switch_SharedHdr ==
    /\ op' = other.op /\ cfg' = other.cfg /\ file' = other.file
    /\ data' = other.data /\ raw' = other.raw /\ pc' = other.pc
    /\ t' = other.t /\ src' = other.src /\ from' = other.from
    /\ hdr' = hdr /\ msg' = other.msg /\ rcpts' = other.rcpts
    /\ uniq' = other.uniq /\ conn' = other.conn /\ client' = other.client
    /\ defers' = other.defers /\ wire' = other.wire /\ ret' = other.ret
    /\ other' = Frame

\* the scheduler takes the running goroutine off and puts the other one on:
\* each finds its arguments and locals as it left them
Switch ==
    /\ op' = other.op /\ cfg' = other.cfg /\ file' = other.file
    /\ data' = other.data /\ raw' = other.raw /\ pc' = other.pc
    /\ t' = other.t /\ src' = other.src /\ from' = other.from
    /\ hdr' = other.hdr /\ msg' = other.msg /\ rcpts' = other.rcpts
    /\ uniq' = other.uniq /\ conn' = other.conn /\ client' = other.client
    /\ defers' = other.defers /\ wire' = other.wire /\ ret' = other.ret
    /\ other' = Frame

\* the calls made concurrently: the plain one, and one with a greeting name,
\* a Bcc, a custom header, a time zone and an attachment
ConcCalls ==
    {SendCall(Base),
     SendCall([Base EXCEPT !.hello = "me", !.tb = <<104>>, !.tz = "Asia/Tokyo",
                           !.headers = H_XApp :> <<112>>, !.att = <<"a.txt">>])}

\* two goroutines, each about to call Send
InitConc ==
    \E first, second \in ConcCalls :
        /\ op = first.op /\ cfg = first.cfg /\ file = first.file
        /\ data = first.data /\ raw = first.raw
        /\ pc = "start" /\ t = NoTemplate /\ src = NoSrc /\ from = Empty
        /\ hdr = NoHeader /\ msg = NoMsg /\ rcpts = <<>> /\ uniq = {}
        /\ conn = "none" /\ client = NoClient /\ defers = <<>> /\ wire = <<>>
        /\ ret = NoRet
        /\ other = NewFrame(second)

NextConc ==
    \/ SendParse \/ SendFrom \/ SendTo \/ SendCc \/ SendBcc \/ SendSubject
    \/ SendRequired \/ SendCustomHeaders \/ SendBody
    \/ SendDial \/ SendNewClient \/ SendHello \/ SendMail \/ SendRcpt \/ SendData
    \/ SendWrite \/ SendCloseData
    \/ DeferQuit \/ DeferConnClose
    \/ Switch

ConcSpec == InitConc /\ [][NextConc]_vars

\* ------------------------------------------------------------------ claims

AddressFields == {"From", "To", "Cc", "Bcc"}

HName(f) ==
    CASE f = "From" -> H_From [] f = "To" -> H_To [] f = "Cc" -> H_Cc
      [] f = "Bcc" -> H_Bcc [] f = "Subject" -> H_Subject

\* t.From(), t.To(), t.Cc(), t.Bcc(): the value the template file declares
TplValue(f) == HdrGet(t.hdr, HName(f))

Happened(name) == \E i \in 1..Len(wire) : wire[i].cmd = name
Succeeded(name) == \E i \in 1..Len(wire) : wire[i].cmd = name /\ wire[i].ok
Failed(name) == \E i \in 1..Len(wire) : wire[i].cmd = name /\ ~wire[i].ok

\* C1: for From, To, Cc and Bcc, the source Send renders is the template
\* file's value whenever that is non-empty, whatever the configuration holds,
\* and the configuration's value only when the template's is empty; the header
\* Send then sets is the rendering of that source.
C1_TemplateValueWins ==
    op = "Send" =>
        \A f \in AddressFields \cap DOMAIN src :
            /\ TplValue(f) # Empty => src[f] = TplValue(f)
            /\ TplValue(f) = Empty => src[f] = cfg[f]
            /\ pc \in {"required", "custom"}
                  => HdrGet(hdr, HName(f)) = Execute(src[f], data)

\* Both sources of From are set and differ and the template's was taken; the
\* template has no Cc and the configuration's was taken.
C1_Witness ==
    /\ op = "Send" /\ pc = "required"
    /\ TplValue("From") # Empty /\ cfg.From # Empty /\ cfg.From # TplValue("From")
    /\ src["From"] = TplValue("From")
    /\ TplValue("Cc") = Empty /\ cfg.Cc # Empty /\ src["Cc"] = cfg.Cc

BothEmpty(f) == TplValue(f) = Empty /\ cfg[f] = Empty

\* C2: when the template and the configuration both leave From empty, or both
\* leave To empty, Send gets no further than the To header, dials nothing, and
\* what it returns is retry=false with an error.
C2_MissingAddressFails ==
    op = "Send" /\ t.parsed /\ (BothEmpty("From") \/ BothEmpty("To")) =>
        /\ pc \in {"from", "to", "done"}
        /\ wire = <<>> /\ conn = "none"
        /\ ret.returned => ~ret.retry /\ ret.err # Nil

\* From is given, To is given nowhere, and Send has returned.
C2_Witness ==
    /\ op = "Send" /\ pc = "done"
    /\ ~BothEmpty("From") /\ BothEmpty("To")
    /\ ~ret.retry /\ ret.err = "missing To address"

\* C3 as stated: every message handed to the SMTP session carries a non-empty
\* From header value and a non-empty To header value.
C3_NonEmptyHeaders ==
    op = "Send" /\ msg.built /\ Happened("MESSAGE") =>
        HdrGet(msg.hdr, H_From) # Empty /\ HdrGet(msg.hdr, H_To) # Empty

\* C3, amended: every assembled message was rendered from a non-empty From
\* source and a non-empty To source, and carries a non-empty header wherever
\* that source renders to a non-empty value; with an empty source Send builds
\* no message and dials nothing.
C3_NonEmptySources ==
    op = "Send" =>
        /\ msg.built =>
              /\ src["From"] # Empty /\ src["To"] # Empty
              /\ Execute(src["From"], data) # Empty => HdrGet(msg.hdr, H_From) # Empty
              /\ Execute(src["To"], data) # Empty => HdrGet(msg.hdr, H_To) # Empty
        /\ (\E f \in {"From", "To"} \cap DOMAIN src : src[f] = Empty) =>
              ~msg.built /\ wire = <<>>

\* A message went to the relay whose From source is set and whose From header
\* is empty.
C3_Witness ==
    /\ op = "Send" /\ msg.built /\ Succeeded("MESSAGE")
    /\ src["From"] # Empty /\ HdrGet(msg.hdr, H_From) = Empty

\* a template Send uses does not parse or does not execute: a header source it
\* has chosen, the body it could not parse, or the body it has executed
TemplateError ==
    \/ file.exists /\ ParseFile(file).err # Nil
    \/ \E f \in DOMAIN src : ~ParseOK(src[f]) \/ ~ExecOK(src[f])
    \/ msg.built /\ ~ExecOK(t.bodyTmpl)

\* C4: a parse or execution error of a header template or of the body template
\* makes Send return retry=false with an error, and no message is transmitted.
C4_TemplateErrorIsPermanent ==
    op = "Send" /\ TemplateError =>
        /\ ~Happened("MESSAGE")
        /\ ret.returned => ~ret.retry /\ ret.err # Nil

\* C5: a failed dial, a failed client construction, and a failed opening,
\* writing or closing of the DATA stream each make Send return retry=true with
\* an error.
C5_TransientFailuresRetry ==
    op = "Send" =>
        \A i \in 1..Len(wire) :
            wire[i].cmd \in {"DIAL", "GREETING", "DATA", "MESSAGE", "END"} /\ ~wire[i].ok
                => ret.returned /\ ret.retry /\ ret.err # Nil

\* Closing the DATA stream failed and Send has returned.
C5_Witness ==
    /\ op = "Send" /\ pc = "done" /\ Failed("END")
    /\ ret.retry /\ ret.err # Nil

\* C6: once the relay has rejected MAIL FROM, Send has returned retry=false
\* with an error, and the session holds no RCPT TO and no DATA.
C6_MailRejected ==
    op = "Send" /\ Failed("MAIL") =>
        /\ ~Happened("RCPT") /\ ~Happened("DATA") /\ ~Happened("MESSAGE")
        /\ ret.returned /\ ~ret.retry /\ ret.err # Nil

\* MAIL FROM was rejected with recipients waiting, and Send has returned.
C6_Witness ==
    /\ op = "Send" /\ pc = "done" /\ Failed("MAIL")
    /\ recipients(hdr) # <<>>

\* C7: once the relay has rejected a RCPT TO, Send has returned retry=false
\* with an error, and nothing follows the rejected command in the session but
\* the QUIT: no RCPT TO for a later recipient and no DATA.
C7_RcptRejected ==
    op = "Send" =>
        \A k \in 1..Len(wire) :
            wire[k].cmd = "RCPT" /\ ~wire[k].ok =>
                /\ \A j \in (k + 1)..Len(wire) :
                       wire[j].cmd \notin {"RCPT", "DATA", "MESSAGE", "END"}
                /\ ret.returned /\ ~ret.retry /\ ret.err # Nil

\* The second recipient was rejected after the first was accepted, a third was
\* waiting, and Send has returned.
C7_Witness ==
    /\ op = "Send" /\ pc = "done" /\ Len(rcpts) >= 2
    /\ \E k \in 2..Len(wire) :
          /\ wire[k].cmd = "RCPT" /\ ~wire[k].ok
          /\ wire[k - 1].cmd = "RCPT" /\ wire[k - 1].ok

IsAcceptedRcpt(e) == e.cmd = "RCPT" /\ e.ok

\* the recipients the relay has accepted, in order
AcceptedRcpts ==
    [i \in 1..Len(SelectSeq(wire, IsAcceptedRcpt)) |-> SelectSeq(wire, IsAcceptedRcpt)[i].arg]

AllSucceeded ==
    /\ Succeeded("DIAL") /\ Succeeded("GREETING") /\ Succeeded("MAIL")
    /\ AcceptedRcpts = recipients(hdr)
    /\ Succeeded("DATA") /\ Succeeded("MESSAGE") /\ Succeeded("END")

\* C8: Send's result is (false, nil) if and only if the dial, the client
\* construction, MAIL FROM, every RCPT TO, and the opening, writing and
\* closing of the DATA stream all succeeded, whatever became of the QUIT.
C8_SuccessIffAllSucceeded ==
    op = "Send" /\ pc = "done" =>
        ((~ret.retry /\ ret.err = Nil) <=> AllSucceeded)

\* Everything succeeded, the QUIT failed, and Send has returned (false, nil).
C8_Witness ==
    /\ op = "Send" /\ pc = "done" /\ AllSucceeded /\ Failed("QUIT")
    /\ ~ret.retry /\ ret.err = Nil

\* C9: when Send or SendRaw has returned after the connection was
\* established, the connection is closed, and if the SMTP client was
\* constructed a QUIT was attempted.
C9_SessionClosed ==
    pc = "done" =>
        /\ Succeeded("DIAL") => conn = "closed"
        /\ client.exists => Happened("QUIT")

\* SendRaw has returned an error after a recipient was rejected; the QUIT
\* failed and the connection is closed all the same.
C9_Witness ==
    /\ op = "SendRaw" /\ pc = "done" /\ ret.err # Nil
    /\ Failed("RCPT") /\ Failed("QUIT") /\ conn = "closed"

\* the names of the headers Send resolves before it merges the custom headers
OwnHeaders ==
    {H_From, H_To, H_Cc, H_Bcc, H_Subject, H_Date, CanonicalMIMEHeaderKey(H_MIMEVersion)}

\* C10: in the assembled message From, To, Cc, Bcc, Subject, Date and
\* MIME-Version have the values resolved before the custom headers were merged,
\* and a custom header with an empty value is not added.
C10_CustomHeadersNeverOverride ==
    op = "Send" /\ msg.built =>
        /\ \A f \in AddressFields : HdrGet(msg.hdr, HName(f)) = Execute(src[f], data)
        /\ HdrGet(msg.hdr, H_Subject) = encodingUTF8Subject(Execute(src["Subject"], data))
        /\ HdrGet(msg.hdr, H_Date) = DateValue(cfg.Timezone)
        /\ HdrGet(msg.hdr, H_MIMEVersion) = <<49, 46, 48>>
        /\ \A k \in DOMAIN cfg.Headers :
              cfg.Headers[k] = Empty /\ CanonicalMIMEHeaderKey(k) \notin OwnHeaders
                  => CanonicalMIMEHeaderKey(k) \notin DOMAIN msg.hdr

\* the lines of a text: what "\n" separates, without the "\r" before it
LinesOf(s) == {StripCR(Split(s, 10)[i]) : i \in 1..Len(Split(s, 10))}

\* the Content-Transfer-Encoding the message declares for its text part
DeclaredEncoding ==
    IF msg.multipart THEN HdrGet(msg.text.hdr, H_CTE) ELSE HdrGet(msg.hdr, H_CTE)

\* all bytes are ASCII and no line is longer than 76 bytes
PlainBody(body) ==
    /\ \A i \in 1..Len(body) : body[i] < 128
    /\ \A line \in LinesOf(body) : Len(line) <= 76

\* C11: the text part is declared 7bit and sent as rendered exactly when the
\* rendered body is pure ASCII with every line at most 76 bytes long; any
\* other body is declared quoted-printable and sent quoted-printable encoded,
\* in a single-part and in a multipart message alike. Stated for data that
\* renders the same each time.
C11_EncodingSelection ==
    op = "Send" /\ msg.built /\ ExecOK(t.bodyTmpl) /\ data.again = data.V =>
        LET body == Execute(t.bodyTmpl, data)
        IN  IF PlainBody(body)
            THEN DeclaredEncoding = V_7bit /\ msg.text.body = body
            ELSE DeclaredEncoding = V_QP /\ msg.text.body = QuotedPrintable(body)

\* C12: in every assembled message no line of the text part, 7bit or
\* quoted-printable, and no base64 line of an attachment part is longer than
\* 76 bytes.
C12_BodyLinesWithinLimit ==
    op = "Send" /\ msg.built =>
        /\ \A line \in LinesOf(msg.text.body) : Len(line) <= 76
        /\ \A i \in 1..Len(msg.attachments) :
              \A line \in LinesOf(msg.attachments[i].body) : Len(line) <= 76

\* A multipart message whose quoted-printable text part has a line of exactly
\* 76 bytes, made by a soft line break, and whose attachment fills one base64
\* line of 76 bytes and begins another.
C12_Witness ==
    /\ op = "Send" /\ msg.built /\ msg.multipart /\ DeclaredEncoding = V_QP
    /\ \E line \in LinesOf(msg.text.body) : Len(line) = 76 /\ line[76] = 61
    /\ \E i \in 1..Len(msg.attachments) :
          /\ Cardinality(LinesOf(msg.attachments[i].body)) >= 3
          /\ \E line \in LinesOf(msg.attachments[i].body) : Len(line) = 76

\* the value of a character of the base64 alphabet
B64Value(c) == CHOOSE n \in 0..63 : B64Char(n) = c

\* the bytes four base64 characters stand for, "=" being padding
DecodeQuantum(q) ==
    LET b1 == B64Value(q[1]) * 4 + B64Value(q[2]) \div 16
        b2 == (B64Value(q[2]) % 16) * 16 + B64Value(q[3]) \div 4
        b3 == (B64Value(q[3]) % 4) * 64 + B64Value(q[4])
    IN  IF q[3] = 61 THEN <<b1>> ELSE IF q[4] = 61 THEN <<b1, b2>> ELSE <<b1, b2, b3>>

\* base64 decoding of the concatenated lines of a part
RECURSIVE DecodeString(_)
DecodeString(s) ==
    IF Len(s) < 4 THEN <<>>
    ELSE DecodeQuantum(SubSeq(s, 1, 4)) \o DecodeString(SubSeq(s, 5, Len(s)))

\* s begins with p
HasPrefix(s, p) == Len(s) >= Len(p) /\ SubSeq(s, 1, Len(p)) = p

\* C13: without attachments the message is a single text/plain part; with N
\* attachment paths it is multipart/mixed with the text part followed by N
\* attachment parts, one per path in the order of the list, and the base64
\* lines of each attachment part, concatenated and decoded, are the bytes of
\* the file at that path.
C13_PartsMatchAttachments ==
    op = "Send" /\ msg.built =>
        IF cfg.Attachments = <<>>
        THEN /\ ~msg.multipart /\ msg.attachments = <<>>
             /\ HdrGet(msg.hdr, H_ContentType) = V_TextPlain
        ELSE /\ msg.multipart
             /\ HasPrefix(HdrGet(msg.hdr, H_ContentType), V_Multipart)
             /\ HdrGet(msg.text.hdr, H_ContentType) = V_TextPlain
             /\ Len(msg.attachments) = Len(cfg.Attachments)
             /\ \A i \in 1..Len(cfg.Attachments) :
                   /\ msg.attachments[i].filename = cfg.Attachments[i]
                   /\ msg.attachments[i].cte = "base64"
                   /\ DecodeString(RemoveCRLF(msg.attachments[i].body))
                         = ReadFile(cfg.Attachments[i]).data

\* A message with two different files attached: the first fills more than
\* one base64 line, the second ends in padding.
C13_Witness ==
    /\ op = "Send" /\ msg.built
    /\ cfg.Attachments = <<"c.dat", "b.bin">>
    /\ Len(msg.attachments) = 2

\* one of the attachment files cannot be read
AttachmentUnreadable ==
    \E i \in 1..Len(cfg.Attachments) : ReadFile(cfg.Attachments[i]).err # Nil

\* C14: when an attachment file cannot be read, Send builds no message, dials
\* nothing and transmits nothing, and what it returns is retry=false with an
\* error, whatever attachments came before the unreadable one.
C14_AttachmentReadFailure ==
    op = "Send" /\ AttachmentUnreadable =>
        /\ ~msg.built /\ wire = <<>> /\ conn = "none"
        /\ pc \notin {"dial", "newclient", "hello", "mail", "rcpt", "write", "close", "defer"}
        /\ ret.returned => ~ret.retry /\ ret.err # Nil

\* The second attachment could not be read after the first was encoded, and
\* Send has returned the error of the read.
C14_Witness ==
    /\ op = "Send" /\ pc = "done"
    /\ cfg.Attachments = <<"c.dat", "gone.bin">>
    /\ ~ret.retry /\ ret.err = ReadFile("gone.bin").err

\* s ends with p
HasSuffix(s, p) == Len(s) >= Len(p) /\ SubSeq(s, Len(s) - Len(p) + 1, Len(s)) = p

IsHexDigit(c) == (c >= 48 /\ c <= 57) \/ (c >= 65 /\ c <= 70)

\* every "=" of s begins an escape sequence: "=" and two hexadecimal digits
NoRawEquals(s) ==
    \A i \in 1..Len(s) :
        s[i] = 61 => i + 2 <= Len(s) /\ IsHexDigit(s[i + 1]) /\ IsHexDigit(s[i + 2])

\* "=?UTF-8?Q?" and "?="
EncodedWordStart == <<61, 63, 85, 84, 70, 45, 56, 63, 81, 63>>
EncodedWordEnd == <<63, 61>>

\* C15: the Subject header Send sets is the rendered subject itself when that
\* is pure ASCII; when it has a non-ASCII byte the header is "=?UTF-8?Q?",
\* a text in which every "=" begins an escape sequence, and "?=".
C15_SubjectEncoding ==
    op = "Send" /\ pc = "required" =>
        LET subj == Execute(src["Subject"], data)
            h == HdrGet(hdr, H_Subject)
        IN  IF \A i \in 1..Len(subj) : subj[i] < 128
            THEN h = subj
            ELSE /\ HasPrefix(h, EncodedWordStart) /\ HasSuffix(h, EncodedWordEnd)
                 /\ Len(h) >= Len(EncodedWordStart) + Len(EncodedWordEnd)
                 /\ NoRawEquals(SubSeq(h, Len(EncodedWordStart) + 1,
                                        Len(h) - Len(EncodedWordEnd)))

\* A subject with a non-ASCII byte and an "=" has been encoded.
C15_Witness ==
    /\ op = "Send" /\ pc = "required"
    /\ \E i \in 1..Len(src["Subject"]) : src["Subject"][i] = 61
    /\ \E i \in 1..Len(src["Subject"]) : src["Subject"][i] \in 128..255
    /\ HasPrefix(HdrGet(hdr, H_Subject), EncodedWordStart)

\* the lines written for one header, each without its "\r\n"
HeaderLines(bytes) ==
    [i \in 1..(Len(Split(bytes, 10)) - 1) |-> StripCR(Split(bytes, 10)[i])]

\* the lines put together again, the space that begins each line after the
\* first taken off
Unfold(lines) ==
    IF Len(lines) = 1 THEN lines[1]
    ELSE lines[1] \o Concat([i \in 1..(Len(lines) - 1) |-> Tail(lines[i + 1])])

\* C16: every header line Send writes is at most 78 bytes long, and the lines
\* of a folded header after the first each begin with one space put there by
\* the folding: with that space taken off, the lines joined are the header.
C16_HeaderLinesWithinLimit ==
    op = "Send" /\ msg.built =>
        \A k \in DOMAIN msg.head :
            LET lines == HeaderLines(msg.head[k])
            IN  /\ Len(lines) >= 1
                /\ \A i \in 1..Len(lines) : Len(lines[i]) <= 78
                /\ \A i \in 2..Len(lines) : lines[i] # <<>> /\ lines[i][1] = 32
                /\ Unfold(lines) = k \o <<58, 32>> \o msg.hdr[k]

\* the entries SendRaw collects from To, Cc and Bcc
RawRecipients ==
    parseAddressList(HdrGet(RawHeader.hdr, H_To))
    \o parseAddressList(HdrGet(RawHeader.hdr, H_Cc))
    \o parseAddressList(HdrGet(RawHeader.hdr, H_Bcc))

\* the From header yields no address
NoUsableFrom == extractAddr(HdrGet(RawHeader.hdr, H_From)).err # Nil

\* no entry of To, Cc and Bcc yields an address
NoUsableRecipient ==
    \A i \in 1..Len(RawRecipients) : extractAddr(RawRecipients[i]).err # Nil

\* C17: when the raw message has no usable From address, or no usable
\* recipient address in To, Cc and Bcc, SendRaw opens no connection and
\* returns an error.
C17_RawRejectedBeforeNetwork ==
    op = "SendRaw" /\ RawHeader.err = Nil /\ (NoUsableFrom \/ NoUsableRecipient) =>
        /\ wire = <<>> /\ conn = "none"
        /\ pc = "done" => ret.returned /\ ret.err # Nil

\* C18: what SendRaw writes in the DATA phase is the input message, header
\* block and body, once and unchanged, whether or not the reader can seek.
C18_RawBytesExact ==
    op = "SendRaw" =>
        \A i \in 1..Len(wire) :
            wire[i].cmd = "MESSAGE" /\ wire[i].ok => wire[i].arg = raw.content

\* C19: SendRaw issues no two RCPT TO commands for the same address, however
\* often the address appears in To, Cc and Bcc and whatever display name
\* comes with it.
C19_OneRcptPerAddress ==
    op = "SendRaw" =>
        \A i, j \in 1..Len(wire) :
            i < j /\ wire[i].cmd = "RCPT" /\ wire[j].cmd = "RCPT"
                => wire[i].arg # wire[j].arg

\* The address a@x.io stands in To with a display name and in Cc without;
\* the recipient loop is over and one RCPT TO was issued for it, and one for
\* another address.
C19_Witness ==
    /\ op = "SendRaw" /\ Succeeded("DATA")
    /\ Cardinality({i \in 1..Len(RawRecipients) :
                       extractAddr(RawRecipients[i]).addr = R_A}) >= 2
    /\ \E i \in 1..Len(RawRecipients) : RawRecipients[i] # R_A
                                          /\ extractAddr(RawRecipients[i]).addr = R_A
    /\ Cardinality({i \in 1..Len(wire) : wire[i].cmd = "RCPT" /\ wire[i].arg = R_A}) = 1
    /\ \E i \in 1..Len(wire) : wire[i].cmd = "RCPT" /\ wire[i].arg = R_B

\* the lines of the template file, without their line ends
FileLines == [i \in 1..Len(Split(file.content, 10)) |-> StripCR(Split(file.content, 10)[i])]

\* the first empty line, or one more than the number of lines when none is empty
BlankLine ==
    IF \E i \in 1..Len(FileLines) : FileLines[i] = <<>>
    THEN CHOOSE i \in 1..Len(FileLines) :
             FileLines[i] = <<>> /\ \A j \in 1..(i - 1) : FileLines[j] # <<>>
    ELSE Len(FileLines) + 1

\* the lines before the first empty line that have a colon
HeaderLineNumbers ==
    {i \in 1..(BlankLine - 1) : \E j \in 1..Len(FileLines[i]) : FileLines[i][j] = 58}

FirstColon(line) == CHOOSE j \in 1..Len(line) : line[j] = 58 /\ \A m \in 1..(j - 1) : line[m] # 58

\* the name a header line gives, trimmed, "Sub" in any letter case being "Subject"
NameOfLine(i) ==
    LET name == TrimSpace(SubSeq(FileLines[i], 1, FirstColon(FileLines[i]) - 1))
    IN  CanonicalMIMEHeaderKey(IF LowerStr(name) = <<115, 117, 98>> THEN H_Subject ELSE name)

\* the value a header line gives, trimmed
ValueOfLine(i) ==
    TrimSpace(SubSeq(FileLines[i], FirstColon(FileLines[i]) + 1, Len(FileLines[i])))

\* the bytes of the file after the line end of the first empty line
BytesAfterBlankLine ==
    LET ends == {p \in 1..Len(file.content) : file.content[p] = 10}
        at == {p \in ends : Cardinality({q \in ends : q <= p}) = BlankLine}
    IN  IF at = {} THEN <<>>
        ELSE SubSeq(file.content, (CHOOSE p \in at : TRUE) + 1, Len(file.content))

\* C20: the headers ParseFile returns are those of the lines before the first
\* empty line, name and value trimmed, "Sub" in any letter case standing for
\* "Subject", the last line of a name giving its value, the value kept as
\* written with its template expressions; the body template is everything after
\* the empty line. Stated where ParseFile has just returned.
C20_ParseFile ==
    op = "Send" /\ pc = "from" /\ t.parsed =>
        /\ DOMAIN t.hdr = {NameOfLine(i) : i \in HeaderLineNumbers}
        /\ \A i \in HeaderLineNumbers :
              (\A j \in HeaderLineNumbers : j > i => NameOfLine(j) # NameOfLine(i))
                  => t.hdr[NameOfLine(i)] = ValueOfLine(i)
        /\ t.bodyTmpl = BytesAfterBlankLine

\* A parsed file with a name given twice with different values, "sub" with
\* spaces around it, a value holding {{.V}}, a line without a colon among the
\* headers, and a body with an empty line in it.
C20_Witness ==
    /\ op = "Send" /\ pc = "from" /\ t.parsed
    /\ \E i, j \in HeaderLineNumbers :
          i < j /\ NameOfLine(i) = NameOfLine(j) /\ ValueOfLine(i) # ValueOfLine(j)
    /\ \E i \in HeaderLineNumbers :
          NameOfLine(i) = H_Subject /\ FileLines[i][1] = 32
    /\ \E i \in HeaderLineNumbers : \E j \in 1..Len(ValueOfLine(i)) : ValueOfLine(i)[j] = TokVar
    /\ \E i \in 1..(BlankLine - 1) : i \notin HeaderLineNumbers
    /\ \E i \in (BlankLine + 1)..Len(FileLines) : FileLines[i] = <<>>

\* the offset from UTC of a zone of the time zone database, as RFC1123Z prints it
ZoneOffset(name) ==
    CASE name = "Asia/Tokyo" -> <<43, 48, 57, 48, 48>>
      [] name = "UTC" -> <<43, 48, 48, 48, 48>>

\* C22: the statements that set Date always go on to the custom headers
\* without returning, and the Date they set carries the offset of cfg.Timezone
\* when that names a zone that loads, and +0000 when it is empty or does not
\* load.
C22_DateZone ==
    [][op = "Send" /\ pc = "required" =>
          /\ pc' = "custom" /\ ~ret'.returned
          /\ HdrGet(hdr', H_Date) =
                IF cfg.Timezone # "" /\ LoadLocationOK(cfg.Timezone)
                THEN ZoneOffset(cfg.Timezone)
                ELSE <<43, 48, 48, 48, 48>>]_vars

\* A Send with a zone that does not load was delivered with a +0000 Date.
C22_Witness ==
    /\ op = "Send" /\ pc = "done" /\ ret.returned /\ ret.err = Nil
    /\ cfg.Timezone # "" /\ ~LoadLocationOK(cfg.Timezone)
    /\ \E i \in 1..Len(wire) :
          /\ wire[i].cmd = "MESSAGE" /\ wire[i].ok
          /\ HdrGet(wire[i].arg.hdr, H_Date) = <<43, 48, 48, 48, 48>>

\* the positions of a command in the session
Pos(name) == {i \in 1..Len(wire) : wire[i].cmd = name}

IsRcpt(e) == e.cmd = "RCPT"

\* the addresses offered to the relay, in the order they were offered
OfferedRcpts == [i \in 1..Len(SelectSeq(wire, IsRcpt)) |-> SelectSeq(wire, IsRcpt)[i].arg]

\* C23: what the relay sees during a Send is in SMTP order. There is at most
\* one MAIL FROM, and any EHLO or HELO comes before it; the RCPT TO commands
\* follow an accepted MAIL FROM and name the gathered recipients one by one in
\* list order; DATA is issued once, after an accepted MAIL FROM and after every
\* gathered recipient was offered and accepted; the message is written, and
\* the data ended, only after an accepted DATA; QUIT is the last thing sent,
\* and it is sent by the time a Send that issued MAIL FROM has returned.
C23_CommandOrder ==
    op = "Send" /\ wire # <<>> =>
        /\ Cardinality(Pos("MAIL")) <= 1
        /\ \A i \in Pos("EHLO") \cup Pos("HELO") : \A m \in Pos("MAIL") : i < m
        /\ Len(OfferedRcpts) <= Len(recipients(hdr))
        /\ OfferedRcpts = SubSeq(recipients(hdr), 1, Len(OfferedRcpts))
        /\ \A i \in Pos("RCPT") : \E m \in Pos("MAIL") : m < i /\ wire[m].ok
        /\ Cardinality(Pos("DATA")) <= 1
        /\ \A d \in Pos("DATA") :
              /\ \E m \in Pos("MAIL") : m < d /\ wire[m].ok
              /\ \A i \in Pos("RCPT") : i < d /\ wire[i].ok
              /\ Len(OfferedRcpts) = Len(recipients(hdr))
        /\ \A k \in Pos("MESSAGE") \cup Pos("END") :
              \E d \in Pos("DATA") : d < k /\ wire[d].ok
        /\ \A k \in Pos("END") : \E w \in Pos("MESSAGE") : w < k /\ wire[w].ok
        /\ \A q \in Pos("QUIT") : q = Len(wire)
        /\ pc = "done" /\ Pos("MAIL") # {} => Pos("QUIT") # {}

\* A Send with a greeting name went through the whole session: EHLO, MAIL
\* FROM, two RCPT TO, DATA, the message, the end of the data, QUIT.
C23_Witness ==
    /\ op = "Send" /\ pc = "done" /\ cfg.Hello # ""
    /\ Pos("EHLO") # {} /\ Succeeded("MAIL")
    /\ Len(OfferedRcpts) >= 2
    /\ Succeeded("DATA") /\ Succeeded("MESSAGE") /\ Succeeded("END")
    /\ wire[Len(wire)].cmd = "QUIT"

\* C24: when cfg.Hello is set and the relay refuses the greeting (EHLO and the
\* HELO tried after it), a Send that has returned has issued MAIL FROM, and
\* what it returned is not the greeting's failure.
C24_HelloFailureIgnored ==
    op = "Send" /\ cfg.Hello # "" /\ client.helloErr /\ ret.returned =>
        /\ Happened("MAIL")
        /\ ret.err # "greeting refused"

\* the comma-free stretches of v: <<a, b>> stands for the bytes after position
\* a and before position b, where a and b are neighbouring commas or the ends
Stretches(v) ==
    LET cuts == {0, Len(v) + 1} \cup {i \in 1..Len(v) : v[i] = 44}
    IN  {p \in cuts \X cuts : p[1] < p[2] /\ \A c \in cuts : ~(p[1] < c /\ c < p[2])}

\* a stretch without the white space at its two ends
Trimmed(v, p) ==
    LET ink == {i \in (p[1] + 1)..(p[2] - 1) : ~IsSpace(v[i])}
    IN  IF ink = {} THEN <<>>
        ELSE SubSeq(v, CHOOSE i \in ink : \A j \in ink : i <= j,
                       CHOOSE i \in ink : \A j \in ink : j <= i)

\* the entries of the address list v: its stretches that are more than white
\* space, trimmed, from left to right
Entries(v) ==
    LET full == {p \in Stretches(v) : Trimmed(v, p) # <<>>}
    IN  [k \in 1..Cardinality(full) |->
            Trimmed(v, CHOOSE p \in full :
                          Cardinality({q \in full : q[1] < p[1]}) = k - 1)]

\* C25: while Send offers recipients to the relay, the addresses offered so
\* far followed by those still to be offered are the entries of the To header,
\* then those of the Cc header, then those of the Bcc header: each header
\* value cut at its commas, each piece trimmed, the empty pieces left out, the
\* others in their order, repeated addresses repeated.
C25_Recipients ==
    op = "Send" /\ pc = "rcpt" =>
        OfferedRcpts \o rcpts =
            Entries(HdrGet(hdr, H_To)) \o Entries(HdrGet(hdr, H_Cc))
            \o Entries(HdrGet(hdr, H_Bcc))

\* To, Cc and Bcc all gave recipients, some pieces were empty or blank, an
\* address is there twice, and all of them have been offered.
C25_Witness ==
    /\ op = "Send" /\ pc = "rcpt" /\ rcpts = <<>>
    /\ Entries(HdrGet(hdr, H_Cc)) # <<>> /\ Entries(HdrGet(hdr, H_Bcc)) # <<>>
    /\ Cardinality(Stretches(HdrGet(hdr, H_To))) > Len(Entries(HdrGet(hdr, H_To)))
    /\ Cardinality(Stretches(HdrGet(hdr, H_Bcc))) > Len(Entries(HdrGet(hdr, H_Bcc)))
    /\ \E i, j \in 1..Len(OfferedRcpts) : i < j /\ OfferedRcpts[i] = OfferedRcpts[j]
    /\ Len(OfferedRcpts) >= 4

\* C26: in a session of Send or of SendRaw, a DATA command comes after at
\* least one RCPT TO that the relay accepted.
C26_NoDataWithoutRcpt ==
    \A d \in Pos("DATA") : \E i \in Pos("RCPT") : i < d /\ wire[i].ok

\* C27: in every assembled message whose body template executes, the bytes of
\* the text part are what the declared Content-Transfer-Encoding makes of the
\* body text rendered for it: that text itself under 7bit, its
\* quoted-printable encoding under quoted-printable; in a single-part and in a
\* multipart message alike.
C27_DeclarationMatchesBody ==
    op = "Send" /\ msg.built /\ ExecOK(t.bodyTmpl) =>
        LET rendered == Execute(t.bodyTmpl, SecondLook(data))
        IN  /\ DeclaredEncoding \in {V_7bit, V_QP}
            /\ DeclaredEncoding = V_7bit => msg.text.body = rendered
            /\ DeclaredEncoding = V_QP => msg.text.body = QuotedPrintable(rendered)

\* the value of a hexadecimal digit
HexValue(c) == IF c >= 65 THEN c - 55 ELSE c - 48

\* the "Q" decoding of RFC 2047 of a text in which every "=" begins an escape
\* sequence: "=XX" is the byte XX, "_" is a space, any other byte is itself
QDecode(s) ==
    LET kept == {i \in 1..Len(s) :
                    s[i] = 61 \/ ~(\E j \in {i - 1, i - 2} : j >= 1 /\ s[j] = 61)}
        at(k) == CHOOSE i \in kept : Cardinality({j \in kept : j < i}) = k - 1
    IN  [k \in 1..Cardinality(kept) |->
            IF s[at(k)] = 61 THEN 16 * HexValue(s[at(k) + 1]) + HexValue(s[at(k) + 2])
            ELSE IF s[at(k)] = 95 THEN 32
            ELSE s[at(k)]]

\* C28: when the rendered subject has a non-ASCII byte, the text between
\* "=?UTF-8?Q?" and "?=" of the Subject header Send sets decodes, as RFC 2047
\* Q-encoding, to the bytes of the rendered subject.
C28_SubjectRoundTrip ==
    op = "Send" /\ pc = "required" /\ ~isASCII(Execute(src["Subject"], data)) =>
        LET h == HdrGet(hdr, H_Subject)
        IN  QDecode(SubSeq(h, Len(EncodedWordStart) + 1, Len(h) - Len(EncodedWordEnd)))
                = Execute(src["Subject"], data)

\* C29: the recipients named by the Bcc source get their RCPT TO, and the
\* message written to the relay has no Bcc header.
C29_BccNotDisclosed ==
    op = "Send" =>
        \A i \in Pos("MESSAGE") :
            Execute(src["Bcc"], data) # Empty =>
                /\ \A k \in 1..Len(Entries(Execute(src["Bcc"], data))) :
                      \E j \in Pos("RCPT") :
                          j < i /\ wire[j].arg = Entries(Execute(src["Bcc"], data))[k]
                /\ H_Bcc \notin DOMAIN wire[i].arg.head

\* C30: whatever Send returns, and whatever the deferred calls do after the
\* return statement, retry=true comes with an error: (true, nil) is never
\* the result.
C30_RetryImpliesError ==
    op = "Send" /\ ret.returned => (ret.retry => ret.err # Nil)

\* Send has returned retry=true with the error of a failed dial.
C30_Witness ==
    /\ op = "Send" /\ pc = "done" /\ ret.returned
    /\ Failed("DIAL") /\ ret.retry /\ ret.err # Nil

\* the relay's answers in a session, in order
Responses(w) == [i \in 1..Len(w) |-> w[i].ok]

====
